---- MODULE Spec2Model ----
(***************************************************************************)
(* A model of env_validator.py: the valid_values list tokenizer, the type  *)
(* coercion layer, validate_env and the control flow of main.              *)
(*                                                                         *)
(* Python strings are modelled as sequences of one-character strings, so   *)
(* that stripping, lower-casing, integer parsing and character classes are *)
(* computed rather than assumed.                                           *)
(***************************************************************************)
EXTENDS Integers, Sequences, FiniteSets, TLC

(***************************************************************************)
(* Bounds of the exploration.                                              *)
(***************************************************************************)
\* largest number of entries of the configuration map given to validate_env
MaxEnv == 2
\* longest enumerated input of _tokenize_list
MaxLen == 4
\* largest number of lines of an enumerated template
MaxLines == 4
\* largest number of lines of an enumerated configuration file
MaxEnvLines == 3
\* longest enumerated value of a configuration line
MaxValue == 4

(***************************************************************************)
(* Strings.                                                                *)
(***************************************************************************)
Digits == <<"0", "1", "2", "3", "4", "5", "6", "7", "8", "9">>

DigitSet == {Digits[i] : i \in 1..Len(Digits)}

UpperLetters ==
  <<"A", "B", "C", "D", "E", "F", "G", "H", "I", "J", "K", "L", "M",
    "N", "O", "P", "Q", "R", "S", "T", "U", "V", "W", "X", "Y", "Z">>

LowerLetters ==
  <<"a", "b", "c", "d", "e", "f", "g", "h", "i", "j", "k", "l", "m",
    "n", "o", "p", "q", "r", "s", "t", "u", "v", "w", "x", "y", "z">>

LetterSet ==
  {UpperLetters[i] : i \in 1..26} \cup {LowerLetters[i] : i \in 1..26}

\* the characters in code point order (only the relative order is used)
CodePoints ==
  <<"\t", "\n", "\r", " ", "\"", "#", "'", "+", ",", "-", ".", "/">>
    \o Digits \o <<":", "=", "?">> \o UpperLetters \o <<"\\", "_">> \o LowerLetters

Ord(c) == CHOOSE i \in 1..Len(CodePoints) : CodePoints[i] = c

\* str.__lt__ : lexicographic order by code point
RECURSIVE StrLess(_, _)
StrLess(a, b) ==
  IF b = <<>> THEN FALSE
  ELSE IF a = <<>> THEN TRUE
  ELSE IF a[1] # b[1] THEN Ord(a[1]) < Ord(b[1])
  ELSE StrLess(Tail(a), Tail(b))

\* sorted(keys)
RECURSIVE sorted(_)
sorted(keys) ==
  IF keys = {} THEN <<>>
  ELSE LET least == CHOOSE k \in keys : \A o \in keys \ {k} : StrLess(k, o)
       IN <<least>> \o sorted(keys \ {least})

LowerChar(c) ==
  IF \E i \in 1..26 : UpperLetters[i] = c
  THEN LowerLetters[CHOOSE i \in 1..26 : UpperLetters[i] = c]
  ELSE c

\* str.lower()
lower(s) == [i \in 1..Len(s) |-> LowerChar(s[i])]

IsSpace(c) == c \in {" ", "\t", "\n", "\r"}

RECURSIVE lstrip(_)
lstrip(s) == IF s # <<>> /\ IsSpace(s[1]) THEN lstrip(Tail(s)) ELSE s

RECURSIVE rstrip(_)
rstrip(s) ==
  IF s # <<>> /\ IsSpace(s[Len(s)]) THEN rstrip(SubSeq(s, 1, Len(s) - 1)) ELSE s

\* str.strip()
strip(s) == rstrip(lstrip(s))

DigitValue(c) == (CHOOSE i \in 1..10 : Digits[i] = c) - 1

\* the value of a non-empty run of decimal digits
RECURSIVE DigitsValue(_)
DigitsValue(s) ==
  IF s = <<>> THEN 0
  ELSE 10 * DigitsValue(SubSeq(s, 1, Len(s) - 1)) + DigitValue(s[Len(s)])

AllDigits(s) == \A i \in 1..Len(s) : s[i] \in DigitSet

\* str(n) for n >= 0
RECURSIVE NatToStr(_)
NatToStr(n) ==
  IF n < 10 THEN <<Digits[n + 1]>>
  ELSE NatToStr(n \div 10) \o <<Digits[(n % 10) + 1]>>

\* str(i) of an int
IntToStr(i) == IF i < 0 THEN <<"-">> \o NatToStr(-i) ELSE NatToStr(i)

(***************************************************************************)
(* Optional values (Python None against a value).                          *)
(***************************************************************************)
None == [some |-> FALSE]

Some(v) == [some |-> TRUE, val |-> v]

(***************************************************************************)
(* Type enforcement.  A coercion returns ok = FALSE where the code raises  *)
(* ValueError, and otherwise the pair (python value, canonical string).    *)
(* Python values are tagged with their type; == between values of          *)
(* different types (an int and a str) is False.                            *)
(***************************************************************************)
PyBool(b) == [t |-> "bool", v |-> b]

PyInt(i) == [t |-> "int", v |-> i]

PyFloat(m, e) == [t |-> "float", v |-> <<m, e>>]

PyStr(s) == [t |-> "str", v |-> s]

PyEq(a, b) == a.t = b.t /\ a.v = b.v

Raised == [ok |-> FALSE]

Returned(py, canon) == [ok |-> TRUE, py |-> py, canon |-> canon]

BOOL_TRUE ==
  {<<"t", "r", "u", "e">>, <<"1">>, <<"y", "e", "s">>, <<"y">>, <<"o", "n">>}

BOOL_FALSE ==
  {<<"f", "a", "l", "s", "e">>, <<"0">>, <<"n", "o">>, <<"n">>, <<"o", "f", "f">>}

coerce_bool(value) ==
  LET v == lower(strip(value))
  IN IF v \in BOOL_TRUE THEN Returned(PyBool(TRUE), <<"t", "r", "u", "e">>)
     ELSE IF v \in BOOL_FALSE THEN Returned(PyBool(FALSE), <<"f", "a", "l", "s", "e">>)
     ELSE Raised

HasSign(v) == v # <<>> /\ v[1] \in {"+", "-"}

Unsigned(v) == IF HasSign(v) THEN Tail(v) ELSE v

\* re.fullmatch(r"[+-]?\d+", value.strip()), then int(value.strip(), 10)
coerce_int(value) ==
  LET v == strip(value)
      d == Unsigned(v)
  IN IF d # <<>> /\ AllDigits(d)
     THEN LET i == IF v[1] = "-" THEN -DigitsValue(d) ELSE DigitsValue(d)
          IN Returned(PyInt(i), IntToStr(i))
     ELSE Raised

RECURSIVE Pow10(_)
Pow10(e) == IF e = 0 THEN 1 ELSE 10 * Pow10(e - 1)

\* a decimal m * 10^-e with no trailing zero in its fraction
RECURSIVE Normal(_, _)
Normal(m, e) ==
  IF m = 0 THEN <<0, 0>>
  ELSE IF e > 0 /\ m % 10 = 0 THEN Normal(m \div 10, e - 1)
  ELSE <<m, e>>

RECURSIVE ZeroPad(_, _)
ZeroPad(s, n) == IF Len(s) >= n THEN s ELSE ZeroPad(<<"0">> \o s, n)

\* str(f) of the float m * 10^-e (the positional form Python prints)
FloatToStr(m, e) ==
  LET a == IF m < 0 THEN -m ELSE m
      sign == IF m < 0 THEN <<"-">> ELSE <<>>
  IN IF e = 0 THEN sign \o NatToStr(a) \o <<".", "0">>
     ELSE sign \o NatToStr(a \div Pow10(e)) \o <<".">>
               \o ZeroPad(NatToStr(a % Pow10(e)), e)

DotPositions(d) == {i \in 1..Len(d) : d[i] = "."}

\* float(value.strip()) on decimal literals: [+-]? digits [. digits], with
\* one side of the point allowed to be empty.  Every other string raises
\* (the exponent, inf, nan and underscore forms float() also accepts are
\* kept out of the values the model draws).
coerce_float(value) ==
  LET v == strip(value)
      d == Unsigned(v)
      dots == DotPositions(d)
      p == IF dots = {} THEN Len(d) + 1 ELSE CHOOSE i \in dots : TRUE
      whole == SubSeq(d, 1, p - 1)
      frac == SubSeq(d, p + 1, Len(d))
  IN IF /\ Cardinality(dots) <= 1
        /\ AllDigits(whole) /\ AllDigits(frac)
        /\ whole \o frac # <<>>
     THEN LET a == DigitsValue(whole \o frac)
              n == Normal(IF v[1] = "-" THEN -a ELSE a, Len(frac))
          IN Returned(PyFloat(n[1], n[2]), FloatToStr(n[1], n[2]))
     ELSE Raised

SchemeChars == LetterSet \cup DigitSet \cup {"+", "-", "."}

\* urlparse(url).scheme : the text before the first ':' when it is a letter
\* followed by scheme characters, else ''
UrlScheme(url) ==
  LET colons == {i \in 1..Len(url) : url[i] = ":"}
  IN IF colons = {} THEN <<>>
     ELSE LET i == CHOOSE c \in colons : \A o \in colons : c <= o
          IN IF /\ i > 1
                /\ url[1] \in LetterSet
                /\ \A j \in 1..(i - 1) : url[j] \in SchemeChars
             THEN SubSeq(url, 1, i - 1)
             ELSE <<>>

\* urlparse(url).netloc : after '//' up to the next '/', '?' or '#'
UrlNetloc(url) ==
  LET sch == UrlScheme(url)
      rest == IF sch = <<>> THEN url ELSE SubSeq(url, Len(sch) + 2, Len(url))
  IN IF Len(rest) >= 2 /\ rest[1] = "/" /\ rest[2] = "/"
     THEN LET body == SubSeq(rest, 3, Len(rest))
              stops == {i \in 1..Len(body) : body[i] \in {"/", "?", "#"}}
              stop == IF stops = {} THEN Len(body) + 1
                      ELSE CHOOSE c \in stops : \A o \in stops : c <= o
          IN SubSeq(body, 1, stop - 1)
     ELSE <<>>

coerce_url(value) ==
  LET u == strip(value)
  IN IF UrlScheme(u) = <<>> \/ UrlNetloc(u) = <<>> THEN Raised
     ELSE Returned(PyStr(u), u)

coerce_by_type(value, type_name) ==
  CASE type_name = "string" -> Returned(PyStr(value), value)
    [] type_name = "bool" -> coerce_bool(value)
    [] type_name = "int" -> coerce_int(value)
    [] type_name = "float" -> coerce_float(value)
    [] type_name = "url" -> coerce_url(value)
    [] OTHER -> Returned(PyStr(value), value)

normalize_literal_for_type(literal, type_name) ==
  LET r == coerce_by_type(literal, type_name)
  IN IF r.ok
     THEN IF type_name \in {"bool", "int", "float"} THEN r.py ELSE PyStr(r.canon)
     ELSE PyStr(literal)

(***************************************************************************)
(* Data models.                                                            *)
(*                                                                         *)
(* A compiled pattern is modelled for two shapes of regular expression:    *)
(* [class]{lo,hi} (kind "class") and a text without metacharacters (kind   *)
(* "exact"); ic is re.IGNORECASE.  A pair (compiled, display) of the code  *)
(* is one record holding both.                                             *)
(***************************************************************************)
ClassRe(cls, lo, hi) ==
  [kind |-> "class", cls |-> cls, lo |-> lo, hi |-> hi, text |-> <<>>]

ExactRe(text) ==
  [kind |-> "exact", cls |-> {}, lo |-> Len(text), hi |-> Len(text), text |-> text]

Pattern(display, re, ic) ==
  [display |-> display, kind |-> re.kind, cls |-> re.cls, lo |-> re.lo,
   hi |-> re.hi, text |-> re.text, ic |-> ic]

SameChar(a, b, ic) == a = b \/ (ic /\ LowerChar(a) = LowerChar(b))

\* the first n characters of s are matched by the pattern
MatchesFirst(compiled, s, n) ==
  /\ n \in compiled.lo..compiled.hi
  /\ n <= Len(s)
  /\ IF compiled.kind = "class"
     THEN \A i \in 1..n : \E c \in compiled.cls : SameChar(s[i], c, compiled.ic)
     ELSE \A i \in 1..n : SameChar(s[i], compiled.text[i], compiled.ic)

\* re.Pattern.match : the pattern matches a prefix of the string
PrefixMatch(compiled, s) == \E n \in 0..Len(s) : MatchesFirst(compiled, s, n)

\* re.Pattern.fullmatch : the pattern matches the whole string
fullmatch(compiled, s) == MatchesFirst(compiled, s, Len(s))

\* ConfigOption; an empty valid_literals / valid_regex / compiled_regex
\* stands for None (the parser stores `lits or None`)
ConfigOption(name, type_name, default, required, literals, compiled, note, quoted) ==
  [name |-> name, type_name |-> type_name, default |-> default,
   required |-> required, valid_literals |-> literals,
   valid_regex |-> [i \in 1..Len(compiled) |-> compiled[i].display],
   compiled_regex |-> compiled, note |-> note,
   default_was_quoted |-> quoted]

\* ValidationIssue; setting = <<>> stands for no setting
ValidationIssue(level, code, setting, details) ==
  [level |-> level, code |-> code, setting |-> setting, details |-> details]

NoSetting == <<>>

NoDetails == [none |-> TRUE]

RECURSIVE CountLevel(_, _)
CountLevel(issues, level) ==
  IF issues = <<>> THEN 0
  ELSE (IF issues[1].level = level THEN 1 ELSE 0) + CountLevel(Tail(issues), level)

\* ValidationReport built from an issue list, as every construction site does
ValidationReport(issues) ==
  [issues |-> issues,
   errors |-> CountLevel(issues, "error"),
   warnings |-> CountLevel(issues, "warning")]

(***************************************************************************)
(* validate_env.  A schema is the sequence of its options in insertion     *)
(* order (a dict keeps it); env is a function from the keys present.       *)
(***************************************************************************)
SchemaKeys(sch) == {sch[i].name : i \in 1..Len(sch)}

RECURSIVE UnknownOf(_, _)
UnknownOf(keys, sch) ==
  IF keys = <<>> THEN <<>>
  ELSE (IF keys[1] \notin SchemaKeys(sch)
        THEN <<ValidationIssue("error", "unknown", keys[1], NoDetails)>>
        ELSE <<>>) \o UnknownOf(Tail(keys), sch)

\* the loop without sorted(): the keys in some other order (here descending)
RECURSIVE Reversed(_)
Reversed(s) == IF s = <<>> THEN <<>> ELSE Reversed(Tail(s)) \o <<s[1]>>

UnknownIssues_Unsorted(sch, e, strict) ==
  IF strict THEN UnknownOf(Reversed(sorted(DOMAIN e)), sch) ELSE <<>>

\* the loop over sorted(env.keys()) under `if strict_unknown`
UnknownIssues(sch, e, strict) ==
  IF strict THEN UnknownOf(sorted(DOMAIN e), sch) ELSE <<>>

MissingIssue(option) ==
  ValidationIssue(IF option.required THEN "error" ELSE "warning", "missing",
                  option.name,
                  [default |-> option.default, note |-> option.note])

TypeMismatchIssue(option, raw_value) ==
  ValidationIssue("error", "type_mismatch", option.name,
                  [type |-> option.type_name, value |-> raw_value])

\* the literal compare of validate_env
LiteralOk(option, coerced, case_insensitive) ==
  LET literals == option.valid_literals
  IN IF literals = <<>> THEN FALSE
     ELSE IF option.type_name \in {"bool", "int", "float"}
     THEN \E i \in 1..Len(literals) :
            PyEq(coerced.py, normalize_literal_for_type(literals[i], option.type_name))
     ELSE IF case_insensitive
     THEN \E i \in 1..Len(literals) : lower(coerced.canon) = lower(literals[i])
     ELSE \E i \in 1..Len(literals) : coerced.canon = literals[i]

\* the regex compare with match() in place of fullmatch()
RegexOk_Match(option, raw_value) ==
  \E i \in 1..Len(option.compiled_regex) :
    PrefixMatch(option.compiled_regex[i], raw_value)

\* the regex compare of validate_env, against the raw string
RegexOk(option, raw_value) ==
  \E i \in 1..Len(option.compiled_regex) :
    fullmatch(option.compiled_regex[i], raw_value)

allowed_display(option) == option.valid_literals \o option.valid_regex

InvalidValueIssue(option, raw_value) ==
  ValidationIssue("error", "invalid_value", option.name,
                  [allowed |-> allowed_display(option), value |-> raw_value])

\* the allowed-values part of one iteration, after a successful coercion
AllowedIssues(option, raw_value, coerced, case_insensitive) ==
  IF option.valid_literals = <<>> /\ option.compiled_regex = <<>> THEN <<>>
  ELSE IF LiteralOk(option, coerced, case_insensitive) THEN <<>>
  ELSE IF RegexOk(option, raw_value) THEN <<>>
  ELSE <<InvalidValueIssue(option, raw_value)>>

\* the type check without its `continue`: the allowed values are checked
\* against the raw string after a failed coercion
PresentIssues_NoContinue(option, raw_value, case_insensitive) ==
  LET coerced == coerce_by_type(raw_value, option.type_name)
  IN IF ~coerced.ok
     THEN <<TypeMismatchIssue(option, raw_value)>>
            \o AllowedIssues(option, raw_value,
                             Returned(PyStr(raw_value), raw_value), case_insensitive)
     ELSE AllowedIssues(option, raw_value, coerced, case_insensitive)

\* the type check of one iteration and what follows it
PresentIssues(option, raw_value, case_insensitive) ==
  LET coerced == coerce_by_type(raw_value, option.type_name)
  IN IF ~coerced.ok THEN <<TypeMismatchIssue(option, raw_value)>>
     ELSE AllowedIssues(option, raw_value, coerced, case_insensitive)

\* one iteration in which a default stands in for an absent value
OptionIssues_DefaultUsed(option, e, case_insensitive) ==
  IF option.name \notin DOMAIN e
  THEN IF option.default.some THEN <<>> ELSE <<MissingIssue(option)>>
  ELSE PresentIssues(option, e[option.name], case_insensitive)

\* one iteration of `for name, option in schema.items()`
OptionIssues(option, e, case_insensitive) ==
  IF option.name \notin DOMAIN e THEN <<MissingIssue(option)>>
  ELSE PresentIssues(option, e[option.name], case_insensitive)

RECURSIVE SchemaIssues(_, _, _)
SchemaIssues(sch, e, case_insensitive) ==
  IF sch = <<>> THEN <<>>
  ELSE OptionIssues(sch[1], e, case_insensitive)
         \o SchemaIssues(Tail(sch), e, case_insensitive)

\* the issue list of a whole call of validate_env
validate_env(sch, e, strict, case_insensitive) ==
  ValidationReport(UnknownIssues(sch, e, strict)
                     \o SchemaIssues(sch, e, case_insensitive))

(***************************************************************************)
(* _tokenize_list.  The scanner state is the record of the function's      *)
(* locals; quote_char = "" stands for None.                                *)
(***************************************************************************)
TokStart ==
  [items |-> <<>>, current |-> <<>>, in_quote |-> FALSE, quote_char |-> "",
   in_regex |-> FALSE, regex_escaped |-> FALSE]

\* items after `token = "".join(current).strip(); if token: items.append(token)`
Flushed(st) ==
  IF strip(st.current) # <<>> THEN Append(st.items, strip(st.current)) ELSE st.items

\* the loop body with a backslash that escapes nothing: every '/' inside a
\* regex region closes it
TokStep_NoEscape(st, ch) ==
  IF st.in_quote
  THEN [st EXCEPT !.current = Append(@, ch),
                  !.in_quote = (ch # st.quote_char)]
  ELSE IF st.in_regex
  THEN [st EXCEPT !.current = Append(@, ch),
                  !.in_regex = (ch # "/"),
                  !.regex_escaped = FALSE]
  ELSE IF ch \in {"'", "\""}
  THEN [st EXCEPT !.in_quote = TRUE, !.quote_char = ch, !.current = Append(@, ch)]
  ELSE IF ch = "/"
  THEN [st EXCEPT !.in_regex = TRUE, !.regex_escaped = FALSE,
                  !.current = Append(@, ch)]
  ELSE IF ch = ","
  THEN [st EXCEPT !.items = Flushed(st), !.current = <<>>]
  ELSE [st EXCEPT !.current = Append(@, ch)]

\* the loop body that does not keep the opening quote in the token
TokStep_DropQuote(st, ch) ==
  IF st.in_quote
  THEN [st EXCEPT !.current = Append(@, ch),
                  !.in_quote = (ch # st.quote_char)]
  ELSE IF st.in_regex
  THEN [st EXCEPT !.current = Append(@, ch),
                  !.in_regex = ~(ch = "/" /\ ~st.regex_escaped),
                  !.regex_escaped = (ch = "\\" /\ ~st.regex_escaped)]
  ELSE IF ch \in {"'", "\""}
  THEN [st EXCEPT !.in_quote = TRUE, !.quote_char = ch]
  ELSE IF ch = "/"
  THEN [st EXCEPT !.in_regex = TRUE, !.regex_escaped = FALSE,
                  !.current = Append(@, ch)]
  ELSE IF ch = ","
  THEN [st EXCEPT !.items = Flushed(st), !.current = <<>>]
  ELSE [st EXCEPT !.current = Append(@, ch)]

\* one iteration of `while i < len(s)` on the character ch
TokStep(st, ch) ==
  IF st.in_quote
  THEN [st EXCEPT !.current = Append(@, ch),
                  !.in_quote = (ch # st.quote_char)]
  ELSE IF st.in_regex
  THEN [st EXCEPT !.current = Append(@, ch),
                  !.in_regex = ~(ch = "/" /\ ~st.regex_escaped),
                  !.regex_escaped = (ch = "\\" /\ ~st.regex_escaped)]
  ELSE IF ch \in {"'", "\""}
  THEN [st EXCEPT !.in_quote = TRUE, !.quote_char = ch, !.current = Append(@, ch)]
  ELSE IF ch = "/"
  THEN [st EXCEPT !.in_regex = TRUE, !.regex_escaped = FALSE,
                  !.current = Append(@, ch)]
  ELSE IF ch = ","
  THEN [st EXCEPT !.items = Flushed(st), !.current = <<>>]
  ELSE [st EXCEPT !.current = Append(@, ch)]

RECURSIVE TokScan(_, _)
TokScan(st, text) ==
  IF text = <<>> THEN st ELSE TokScan(TokStep(st, text[1]), Tail(text))

\* _tokenize_list(inner)
tokenize_list(inner_text) == Flushed(TokScan(TokStart, strip(inner_text)))

\* ",".join(tokens)
RECURSIVE JoinComma(_)
JoinComma(tokens) ==
  IF tokens = <<>> THEN <<>>
  ELSE IF Len(tokens) = 1 THEN tokens[1]
  ELSE tokens[1] \o <<",">> \o JoinComma(Tail(tokens))

(***************************************************************************)
(* Parsing utilities of the schema extractor.                              *)
(***************************************************************************)
Quotes == {"'", "\""}

\* _strip_quotes(token)
strip_quotes(token) ==
  LET t == strip(token)
  IN IF Len(t) >= 2 /\ t[1] = t[Len(t)] /\ t[1] \in Quotes
     THEN SubSeq(t, 2, Len(t) - 1)
     ELSE t

\* str.rstrip(",")
RECURSIVE rstrip_commas(_)
rstrip_commas(t) ==
  IF t # <<>> /\ t[Len(t)] = "," THEN rstrip_commas(SubSeq(t, 1, Len(t) - 1)) ELSE t

NoneToken == <<"n", "o", "n", "e">>

\* a default parser that takes only the token None as written for no default
parse_default_CaseSensitive(token) ==
  LET raw == rstrip_commas(strip(token))
  IN IF raw = <<"N", "o", "n", "e">> THEN [val |-> None, was_quoted |-> FALSE]
     ELSE [val |-> Some(strip_quotes(raw)),
           was_quoted |-> (Len(raw) >= 2 /\ raw[1] \in Quotes /\ raw[Len(raw)] = raw[1])]

\* _parse_default_value_with_quote_info(token) : (value, was_quoted)
parse_default_value_with_quote_info(token) ==
  LET raw == rstrip_commas(strip(token))
  IN IF lower(raw) = NoneToken THEN [val |-> None, was_quoted |-> FALSE]
     ELSE [val |-> Some(strip_quotes(raw)),
           was_quoted |-> (Len(raw) >= 2 /\ raw[1] \in Quotes /\ raw[Len(raw)] = raw[1])]

TypeNames ==
  { <<"s", "t", "r", "i", "n", "g">>, <<"i", "n", "t">>, <<"f", "l", "o", "a", "t">>,
    <<"b", "o", "o", "l">>, <<"u", "r", "l">> }

\* the type name as the enumerated value the validation uses
TypeNameOf(chars) ==
  CASE chars = <<"i", "n", "t">> -> "int"
    [] chars = <<"f", "l", "o", "a", "t">> -> "float"
    [] chars = <<"b", "o", "o", "l">> -> "bool"
    [] chars = <<"u", "r", "l">> -> "url"
    [] OTHER -> "string"

\* _parse_type_value(token) : ok = FALSE where it raises ValueError
parse_type_value(token) ==
  LET value == lower(strip_quotes(rstrip_commas(strip(token))))
  IN IF value \in TypeNames THEN [ok |-> TRUE, type_name |-> TypeNameOf(value)]
     ELSE [ok |-> FALSE]

\* re.compile(pattern, flags) for the patterns the templates hold: a
\* four-digit class, a text without metacharacters, and one that does not
\* compile (an unterminated character set)
Metachars == {"[", "]", "(", ")", "{", "}", "^", "$", "*", "+", "?", ".", "|", "\\"}

FourDigitsText == <<"^", "[", "0", "-", "9", "]", "{", "4", "}", "$">>

re_compile(pattern, ic) ==
  IF pattern = FourDigitsText THEN [ok |-> TRUE, re |-> ClassRe(DigitSet, 4, 4)]
  ELSE IF \A i \in 1..Len(pattern) : pattern[i] \notin Metachars
  THEN [ok |-> TRUE, re |-> ExactRe(pattern)]
  ELSE [ok |-> FALSE]

\* _map_regex_flags(flags_str), of which the model keeps re.IGNORECASE
map_regex_flags(flags_str) == \E i \in 1..Len(flags_str) : flags_str[i] = "i"

\* the positions of the '/' that can close the slash form: every character
\* after it is a letter
SlashEnds(t) ==
  {k \in 2..Len(t) :
     /\ t[k] = "/"
     /\ \A j \in (k + 1)..Len(t) : t[j] \in LetterSet
     /\ \A j \in 2..(k - 1) : t[j] # "\n"}

RegexPrefix == <<"r", "e", "g", "e", "x", ":">>

\* _interpret_allowed_token(token) : kind "literal" with its value, kind
\* "regex" with its compiled pattern, or ok = FALSE where it raises
interpret_allowed_token(token) ==
  LET raw == rstrip_commas(strip(token))
      unquoted == strip_quotes(raw)
  IN IF unquoted # <<>> /\ unquoted[1] = "/" /\ SlashEnds(unquoted) # {}
     THEN LET k == CHOOSE e \in SlashEnds(unquoted) :
                     \A o \in SlashEnds(unquoted) : e <= o
              pattern == SubSeq(unquoted, 2, k - 1)
              flags_str == SubSeq(unquoted, k + 1, Len(unquoted))
              c == re_compile(pattern, map_regex_flags(flags_str))
          IN IF c.ok
             THEN [ok |-> TRUE, kind |-> "regex",
                   value |-> Pattern(<<"/">> \o pattern \o <<"/">> \o flags_str,
                                     c.re, map_regex_flags(flags_str))]
             ELSE [ok |-> FALSE]
     ELSE IF Len(unquoted) >= 6 /\ lower(SubSeq(unquoted, 1, 6)) = RegexPrefix
     THEN LET pattern == SubSeq(unquoted, 7, Len(unquoted))
              c == re_compile(pattern, FALSE)
          IN IF c.ok
             THEN [ok |-> TRUE, kind |-> "regex",
                   value |-> Pattern(RegexPrefix \o pattern, c.re, FALSE)]
             ELSE [ok |-> FALSE]
     ELSE [ok |-> TRUE, kind |-> "literal", value |-> unquoted]

RECURSIVE InterpretAll(_)
InterpretAll(tokens) ==
  IF tokens = <<>> THEN [ok |-> TRUE, literals |-> <<>>, regex_list |-> <<>>]
  ELSE LET t == interpret_allowed_token(tokens[1])
           rest == InterpretAll(Tail(tokens))
       IN IF ~t.ok \/ ~rest.ok THEN [ok |-> FALSE]
          ELSE IF t.kind = "literal"
          THEN [rest EXCEPT !.literals = <<t.value>> \o @]
          ELSE [rest EXCEPT !.regex_list = <<t.value>> \o @]

\* _parse_valid_values(inner) : (literals, regex_list), or ok = FALSE
parse_valid_values(inner_text) == InterpretAll(tokenize_list(inner_text))

(***************************************************************************)
(* parse_env_example_schema.  A file is a record: state "missing",         *)
(* "unreadable" or "ok", and its lines.  A line of the template is given   *)
(* by the first of the line patterns it matches (kind) and the text of the *)
(* pattern's group (arg): "header" (SETTING_HEADER_RE), "name", "default", *)
(* "type", "valid_values", "note", "required" (the *_LINE_RE in the order  *)
(* of the elif chain), "comment" for any other comment line, "text" for a  *)
(* line that does not start with '#'.                                      *)
(***************************************************************************)
Line(kind, arg) == [kind |-> kind, arg |-> arg]

(***************************************************************************)
(* The line patterns, on the text of a line (without its line end).        *)
(***************************************************************************)
NoMatch == [ok |-> FALSE]

Group(text) == [ok |-> TRUE, group |-> text]

StartsWith(t, p) == Len(t) >= Len(p) /\ SubSeq(t, 1, Len(p)) = p

Drop(t, n) == SubSeq(t, n + 1, Len(t))

\* meta_line.lstrip().startswith("#")
IsCommentLine(text) == StartsWith(lstrip(text), <<"#">>)

HeaderChars == {UpperLetters[i] : i \in 1..26} \cup DigitSet \cup {"_"}

\* [A-Z0-9_]+ on the whole of t
IsHeaderName(t) == t # <<>> /\ \A k \in 1..Len(t) : t[k] \in HeaderChars

\* SETTING_HEADER_RE.match(line) : ^\s*#\s*([A-Z0-9_]+)\s*$
SETTING_HEADER_RE(text) ==
  IF IsCommentLine(text) /\ IsHeaderName(strip(Tail(lstrip(text))))
  THEN Group(strip(Tail(lstrip(text))))
  ELSE NoMatch

\* \s*= and what follows it
AfterEquals(v) == IF StartsWith(v, <<"=">>) THEN Group(Tail(v)) ELSE NoMatch

\* <keyword>\s*= at the start of u; ic: with re.IGNORECASE
AfterWord(u, keyword, ic) ==
  IF Len(u) >= Len(keyword)
     /\ (IF ic THEN lower(SubSeq(u, 1, Len(keyword))) ELSE SubSeq(u, 1, Len(keyword)))
          = keyword
  THEN AfterEquals(lstrip(Drop(u, Len(keyword))))
  ELSE NoMatch

\* ^\s*#\s*<keyword>\s*= : the text after the '=' sign
AfterKeyword(text, keyword, ic) ==
  IF IsCommentLine(text) THEN AfterWord(lstrip(Tail(lstrip(text))), keyword, ic)
  ELSE NoMatch

\* \s*,?\s* at the start of x: what is left after it
AfterComma(y) == IF StartsWith(y, <<",">>) THEN lstrip(Tail(y)) ELSE y

SkipComma(x) == AfterComma(lstrip(x))

\* \s*,?\s*(?:#.*)?$
EndsOrComment(x) == SkipComma(x) = <<>> \/ StartsWith(SkipComma(x), <<"#">>)

\* \s*,?\s*$
EndsHere(x) == SkipComma(x) = <<>>

\* (?:\s*#.*)?$
CommentTail(x) == x = <<>> \/ StartsWith(lstrip(x), <<"#">>)

\* the place of the first "'" of r after its first character, or 0
ClosingQuote(r) ==
  IF \E q \in 2..Len(r) : r[q] = "'"
  THEN CHOOSE q \in 2..Len(r) : r[q] = "'" /\ \A o \in 2..(q - 1) : r[o] # "'"
  ELSE 0

\* '([^']+)'\s*,?\s*(?:#.*)?$ on r, the closing quote at q
QuotedName(r, q) ==
  IF StartsWith(r, <<"'">>) /\ q >= 3 /\ EndsOrComment(Drop(r, q))
  THEN Group(SubSeq(r, 2, q - 1))
  ELSE NoMatch

NameRest(m) == IF m.ok THEN QuotedName(lstrip(m.group), ClosingQuote(lstrip(m.group))) ELSE NoMatch

\* NAME_LINE_RE.match(line) : ^\s*#\s*name\s*=\s*'([^']+)'\s*,?\s*(?:#.*)?$
NAME_LINE_RE(text) == NameRest(AfterKeyword(text, <<"n", "a", "m", "e">>, FALSE))

\* (.+?)(?:\s*#.*)?$ on r, which starts with a character that is no space:
\* the shortest non-empty prefix that the optional comment can follow
LazyPrefix(r) ==
  SubSeq(r, 1, CHOOSE n \in 1..Len(r) :
                 /\ CommentTail(Drop(r, n))
                 /\ \A o \in 1..(n - 1) : ~CommentTail(Drop(r, o)))

\* \s*(.+?)(?:\s*#.*)?$ on rest: \s* gives back one space when nothing else
\* is left for the group
LazyGroup(rest) ==
  IF rest = <<>> THEN NoMatch
  ELSE IF lstrip(rest) = <<>> THEN Group(<<rest[Len(rest)]>>)
  ELSE Group(LazyPrefix(lstrip(rest)))

LazyRest(m) == IF m.ok THEN LazyGroup(m.group) ELSE NoMatch

\* DEFAULT_LINE_RE.match(line) : ^\s*#\s*default\s*=\s*(.+?)(?:\s*#.*)?$
DEFAULT_LINE_RE(text) ==
  LazyRest(AfterKeyword(text, <<"d", "e", "f", "a", "u", "l", "t">>, FALSE))

\* TYPE_LINE_RE.match(line) : ^\s*#\s*type\s*=\s*(.+?)(?:\s*#.*)?$
TYPE_LINE_RE(text) == LazyRest(AfterKeyword(text, <<"t", "y", "p", "e">>, FALSE))

\* the place of the last "]" of r, or 0
LastBracket(r) ==
  IF \E p \in 1..Len(r) : r[p] = "]"
  THEN CHOOSE p \in 1..Len(r) : r[p] = "]" /\ \A o \in (p + 1)..Len(r) : r[o] # "]"
  ELSE 0

\* \[(.*)\]\s*,?\s*$ on r, the last bracket at p
Bracketed(r, p) ==
  IF StartsWith(r, <<"[">>) /\ p >= 2 /\ EndsHere(Drop(r, p))
  THEN Group(SubSeq(r, 2, p - 1))
  ELSE NoMatch

ListRest(m) == IF m.ok THEN Bracketed(lstrip(m.group), LastBracket(lstrip(m.group))) ELSE NoMatch

\* VALID_VALUES_LINE_RE.match(line) : ^\s*#\s*valid_values\s*=\s*\[(.*)\]\s*,?\s*$
VALID_VALUES_LINE_RE(text) ==
  ListRest(AfterKeyword(text,
             <<"v", "a", "l", "i", "d", "_", "v", "a", "l", "u", "e", "s">>, FALSE))

\* \s*(.+?)\s*$ on rest
NoteGroup(rest) ==
  IF rest = <<>> THEN NoMatch
  ELSE IF lstrip(rest) = <<>> THEN Group(<<rest[Len(rest)]>>)
  ELSE Group(strip(rest))

NoteRest(m) == IF m.ok THEN NoteGroup(m.group) ELSE NoMatch

\* NOTE_LINE_RE.match(line) : ^\s*#\s*note\s*=\s*(.+?)\s*$
NOTE_LINE_RE(text) == NoteRest(AfterKeyword(text, <<"n", "o", "t", "e">>, FALSE))

FalseToken == <<"f", "a", "l", "s", "e">>

\* (true|false)\s*,?\s*$ on r, with re.IGNORECASE
Flag(r, word) ==
  Len(r) >= Len(word) /\ lower(SubSeq(r, 1, Len(word))) = word
    /\ EndsHere(Drop(r, Len(word)))

FlagGroup(r) ==
  IF Flag(r, <<"t", "r", "u", "e">>) THEN Group(SubSeq(r, 1, 4))
  ELSE IF Flag(r, FalseToken) THEN Group(SubSeq(r, 1, 5))
  ELSE NoMatch

FlagRest(m) == IF m.ok THEN FlagGroup(lstrip(m.group)) ELSE NoMatch

\* REQUIRED_LINE_RE.match(line) :
\* ^\s*#\s*required\s*=\s*(true|false)\s*,?\s*$ with re.IGNORECASE
REQUIRED_LINE_RE(text) ==
  FlagRest(AfterKeyword(text, <<"r", "e", "q", "u", "i", "r", "e", "d">>, TRUE))

\* a keyword can match one pattern only: the first match of the elif chain
MetaOf(m_name, m_default, m_type, m_valid, m_note, m_required) ==
  IF m_name.ok THEN Line("name", m_name.group)
  ELSE IF m_default.ok THEN Line("default", m_default.group)
  ELSE IF m_type.ok THEN Line("type", m_type.group)
  ELSE IF m_valid.ok THEN Line("valid_values", m_valid.group)
  ELSE IF m_note.ok THEN Line("note", m_note.group)
  ELSE IF m_required.ok THEN Line("required", m_required.group)
  ELSE Line("comment", <<>>)

HeaderLine(m) == Line("header", m.group)

\* the line as the loops of parse_env_example_schema see it
Classify(text) ==
  IF ~IsCommentLine(text) THEN Line("text", <<>>)
  ELSE IF SETTING_HEADER_RE(text).ok THEN HeaderLine(SETTING_HEADER_RE(text))
  ELSE MetaOf(NAME_LINE_RE(text), DEFAULT_LINE_RE(text), TYPE_LINE_RE(text),
              VALID_VALUES_LINE_RE(text), NOTE_LINE_RE(text), REQUIRED_LINE_RE(text))

ClassifyAll(texts) == [k \in 1..Len(texts) |-> Classify(texts[k])]

ParseError(level, setting) == ValidationIssue(level, "parse_error", setting, NoDetails)

MetaStart ==
  [name |-> None, type_name |-> "string", default |-> None,
   default_was_quoted |-> FALSE, valid_literals |-> <<>>, valid_regex |-> <<>>,
   note |-> None, required |-> None]

TrueToken == <<"t", "r", "u", "e">>

\* meta["default"], meta["default_was_quoted"] = ...
SetDefault(acc, d) ==
  [acc EXCEPT !.meta.default = d.val, !.meta.default_was_quoted = d.was_quoted]

\* a type line that falls back to the default type when the value is refused
SetType_Fallback(acc, r, setting_name) ==
  IF r.ok THEN [acc EXCEPT !.meta.type_name = r.type_name]
  ELSE [acc EXCEPT !.meta.type_name = "string",
                   !.issues = Append(@, ParseError("error", setting_name))]

\* meta["type"] = ..., or the ValueError becomes a parse error
SetType(acc, r, setting_name) ==
  IF r.ok THEN [acc EXCEPT !.meta.type_name = r.type_name]
  ELSE [acc EXCEPT !.issues = Append(@, ParseError("error", setting_name))]

\* meta["valid_literals"], meta["valid_regex"] = ..., or a parse error
SetValidValues(acc, r, setting_name) ==
  IF r.ok
  THEN [acc EXCEPT !.meta.valid_literals = r.literals,
                   !.meta.valid_regex = r.regex_list]
  ELSE [acc EXCEPT !.issues = Append(@, ParseError("error", setting_name))]

\* the if/elif chain on one meta line; acc holds meta and the issues
ApplyMeta(acc, line, setting_name) ==
  CASE line.kind = "name" ->
         [acc EXCEPT !.meta.name = Some(strip(line.arg))]
    [] line.kind = "default" ->
         SetDefault(acc, parse_default_value_with_quote_info(line.arg))
    [] line.kind = "type" ->
         SetType(acc, parse_type_value(line.arg), setting_name)
    [] line.kind = "valid_values" ->
         SetValidValues(acc, parse_valid_values(line.arg), setting_name)
    [] line.kind = "note" ->
         [acc EXCEPT !.meta.note = Some(strip_quotes(rstrip_commas(strip(line.arg))))]
    [] line.kind = "required" ->
         [acc EXCEPT !.meta.required = Some(lower(line.arg) = TrueToken)]
    [] OTHER -> acc

\* the inner while loop: the meta lines from position i up to the first
\* non-comment line or the next header
RECURSIVE ReadBlock(_, _, _, _)
ReadBlock(lines, i, acc, setting_name) ==
  IF i > Len(lines) \/ lines[i].kind \in {"text", "header"}
  THEN [acc EXCEPT !.next = i]
  ELSE ReadBlock(lines, i + 1, ApplyMeta(acc, lines[i], setting_name), setting_name)

\* an insertion that keeps the entry the schema already holds
Inserted_KeepFirst(sch, option) ==
  IF option.name \in SchemaKeys(sch) THEN sch ELSE Append(sch, option)

\* schema[opt_name] = option : a dict keeps the place of a key it holds
Inserted(sch, option) ==
  IF option.name \in SchemaKeys(sch)
  THEN [k \in 1..Len(sch) |-> IF sch[k].name = option.name THEN option ELSE sch[k]]
  ELSE Append(sch, option)

OptionOf(meta, setting_name) ==
  ConfigOption(
    strip(IF meta.name.some /\ meta.name.val # <<>> THEN meta.name.val
          ELSE setting_name),
    meta.type_name, meta.default,
    IF meta.required.some THEN meta.required.val ELSE FALSE,
    meta.valid_literals, meta.valid_regex, meta.note, meta.default_was_quoted)

\* the outer while loop from line i on
RECURSIVE ParseLines(_, _, _, _)

\* schema[opt_name] = option, after the duplicate warning
Store(lines, sch, block, option) ==
  ParseLines(lines, block.next, Inserted(sch, option),
             IF option.name \in SchemaKeys(sch)
             THEN Append(block.issues, ParseError("warning", option.name))
             ELSE block.issues)

\* the end of a block: the option is built from the meta lines read
EndBlock(lines, sch, block, setting_name) ==
  Store(lines, sch, block, OptionOf(block.meta, setting_name))

ParseLines(lines, i, sch, found) ==
  IF i > Len(lines) THEN [schema |-> sch, issues |-> found]
  ELSE IF lines[i].kind # "header" THEN ParseLines(lines, i + 1, sch, found)
  ELSE EndBlock(lines, sch,
                ReadBlock(lines, i + 1,
                          [meta |-> MetaStart, issues |-> found, next |-> i + 1],
                          lines[i].arg),
                lines[i].arg)

\* a template without any block gets a warning
NoBlocksWarning(r) ==
  IF r.schema = <<>>
  THEN [r EXCEPT !.issues = Append(@, ParseError("warning", NoSetting))]
  ELSE r

parse_env_example_schema(file) ==
  IF file.state # "ok"
  THEN [schema |-> <<>>, issues |-> <<ParseError("error", NoSetting)>>]
  ELSE NoBlocksWarning(ParseLines(file.lines, 1, <<>>, <<>>))

(***************************************************************************)
(* load_dotenv.  The lines of the configuration file are texts.            *)
(***************************************************************************)
\* str.strip(chars) for one character
RECURSIVE strip_char(_, _)
strip_char(t, c) ==
  IF t # <<>> /\ t[1] = c THEN strip_char(Tail(t), c)
  ELSE IF t # <<>> /\ t[Len(t)] = c THEN strip_char(SubSeq(t, 1, Len(t) - 1), c)
  ELSE t

\* the loop over s[1:] of a value that starts with the quote q
RECURSIVE QuotedValue(_, _, _, _, _)
QuotedValue(t, k, q, escaped, val_chars) ==
  IF k > Len(t) THEN SubSeq(t, 2, Len(t))
  ELSE IF t[k] = q /\ ~escaped THEN val_chars
  ELSE QuotedValue(t, k + 1, q, t[k] = "\\" /\ ~escaped, Append(val_chars, t[k]))

\* _parse_env_value(raw)
parse_env_value(raw) ==
  LET t == strip(raw)
  IN IF t = <<>> THEN <<>>
     ELSE IF t[1] \in Quotes THEN QuotedValue(t, 2, t[1], FALSE, <<>>)
     ELSE LET hashes == {k \in 1..Len(t) : t[k] = "#"}
              hash_pos == IF hashes = {} THEN 0
                          ELSE CHOOSE h \in hashes : \A o \in hashes : h <= o
              cut == IF hash_pos > 1 /\ t[hash_pos - 1] \in {" ", "\t"}
                     THEN strip(SubSeq(t, 1, hash_pos - 1))
                     ELSE t
          IN strip_char(strip_char(strip(cut), "'"), "\"")

IdentStart == LetterSet \cup {"_"}

IdentChars == LetterSet \cup DigitSet \cup {"_"}

RECURSIVE IdentLen(_, _)
IdentLen(t, n) ==
  IF n < Len(t) /\ t[n + 1] \in (IF n = 0 THEN IdentStart ELSE IdentChars)
  THEN IdentLen(t, n + 1)
  ELSE n

\* ENV_LINE_RE.match(raw) : the key and the rest after '=', or ok = FALSE
MatchEnvLine(raw) ==
  LET t == lstrip(raw)
      n == IdentLen(t, 0)
      after == lstrip(SubSeq(t, n + 1, Len(t)))
  IN IF n > 0 /\ after # <<>> /\ after[1] = "="
     THEN [ok |-> TRUE, key |-> SubSeq(t, 1, n), rest |-> lstrip(Tail(after))]
     ELSE [ok |-> FALSE]

\* the loop of load_dotenv from line i on
RECURSIVE LoadLines(_, _, _, _)
LoadLines(lines, i, e, found) ==
  IF i > Len(lines) THEN [env |-> e, issues |-> found]
  ELSE LET raw == lines[i]
           m == MatchEnvLine(raw)
       IN IF strip(raw) = <<>> \/ strip(raw)[1] = "#"
          THEN LoadLines(lines, i + 1, e, found)
          ELSE IF ~m.ok
          THEN LoadLines(lines, i + 1, e, Append(found, ParseError("warning", NoSetting)))
          ELSE LoadLines(lines, i + 1,
                 [k \in DOMAIN e \cup {m.key} |->
                    IF k = m.key THEN parse_env_value(strip(m.rest)) ELSE e[k]],
                 found)

EmptyEnv == [k \in {} |-> <<>>]

load_dotenv(file) ==
  IF file.state # "ok"
  THEN [env |-> EmptyEnv, issues |-> <<ParseError("error", NoSetting)>>]
  ELSE LoadLines(file.lines, 1, EmptyEnv, <<>>)

(***************************************************************************)
(* The inputs the exploration draws.                                       *)
(***************************************************************************)
KeyA == <<"A">>

KeyAB == <<"A", "B">>

KeyB == <<"B">>

\* names an option of the schema may have
SchemaNames == {KeyA, KeyB}

\* keys the configuration may hold (KeyAB is never declared)
EnvKeys == {KeyA, KeyAB, KeyB}

RawValues ==
  { <<"8", "0">>, <<"+", "8", "0">>, <<"8", "0", "8", "0">>,
    <<"7", "0", "0", "0", "0">>, <<"0">>, <<"y", "e", "s">>,
    <<"D", "e", "b", "u", "g">>, <<"h", ":", "/", "/", "x">> }

FourDigits ==
  Pattern(<<"/", "^", "[", "0", "-", "9", "]", "{", "4", "}", "$", "/">>,
          ClassRe(DigitSet, 4, 4), FALSE)

SomeNote == Some(<<"n", "o", "t", "e">>)

\* the option definitions a block of the template may yield for a name:
\* every type, with and without default, literals and patterns
OptionsNamed(n) ==
  { ConfigOption(n, "string", None, FALSE, <<>>, <<>>, None, FALSE),
    ConfigOption(n, "string", Some(<<"d", "e", "b", "u", "g">>), TRUE,
                 <<<<"D", "E", "B", "U", "G">>>>, <<>>, SomeNote, TRUE),
    ConfigOption(n, "int", None, TRUE,
                 <<<<"8", "0">>, <<"4", "4", "3">>, <<"x">>>>, <<FourDigits>>, None,
                 FALSE),
    ConfigOption(n, "bool", None, FALSE, <<<<"1">>, <<"m", "a", "y", "b", "e">>>>,
                 <<>>, SomeNote, FALSE),
    ConfigOption(n, "float", Some(<<"8", "0">>), FALSE,
                 <<<<"8", "0", ".", "0">>>>, <<FourDigits>>, None, FALSE),
    ConfigOption(n, "url", Some(<<"h", ":", "/", "/", "x">>), TRUE,
                 <<<<"H", ":", "/", "/", "X">>>>, <<>>, None, TRUE) }

\* the schemas: sequences of options with distinct names
Schemas ==
  {<<>>}
    \cup {<<o>> : o \in UNION {OptionsNamed(n) : n \in SchemaNames}}
    \cup {<<o1, o2>> : o1 \in OptionsNamed(KeyA), o2 \in OptionsNamed(KeyB)}
    \cup {<<o2, o1>> : o1 \in OptionsNamed(KeyA), o2 \in OptionsNamed(KeyB)}

\* the configuration maps: at most MaxEnv keys, each with a raw value
Envs ==
  UNION {[ks -> RawValues] : ks \in {k \in SUBSET EnvKeys : Cardinality(k) <= MaxEnv}}

(***************************************************************************)
(* State.                                                                  *)
(*   pc : where the running function is                                    *)
(* validate_env:                                                           *)
(*   schema, env, strict_unknown, case_insensitive_values : its arguments  *)
(*       (in main: the locals schema and env, and the values it passes)    *)
(*   issues : the list validate_env has built so far                       *)
(*   idx    : the position of its loop over schema.items()                 *)
(*   report : the ValidationReport it returned                             *)
(* _tokenize_list:                                                         *)
(*   inner : its argument; pos : the index i into s = inner.strip();       *)
(*   items, current, in_quote, quote_char, in_regex, regex_escaped :       *)
(*       its locals                                                        *)
(* main:                                                                   *)
(*   argv : the parsed command line; fs : the files it finds               *)
(*   schema_issues, env_issues : the issues of the two parsers             *)
(*   full_report : the combined report                                     *)
(*   printed : what was written to stdout and stderr: the issues shown,    *)
(*       and the error and warning counts shown with them, if any          *)
(*   out_file : the file named by --out ("absent", "old", "scaffold")      *)
(*   status : the value main returned                                      *)
(***************************************************************************)
VARIABLES pc,
          schema, env, strict_unknown, case_insensitive_values, issues, idx, report,
          inner, pos, items, current, in_quote, quote_char, in_regex, regex_escaped,
          argv, fs, schema_issues, env_issues, full_report, printed, out_file, status,
          lines, i_line, meta, setting_name, assembled

args == <<schema, env, strict_unknown, case_insensitive_values>>

valVars == <<args, issues, idx, report>>

tokVars ==
  <<inner, pos, items, current, in_quote, quote_char, in_regex, regex_escaped>>

mainVars ==
  <<argv, fs, schema_issues, env_issues, full_report, printed, out_file, status>>

\* the lines of the file being read, the place in them, and the block of the
\* template being read; assembled lists the options built, with the line of
\* their header
fileVars == <<lines, i_line, meta, setting_name, assembled>>

vars == <<pc, valVars, tokVars, mainVars, fileVars>>

NoReport == [issues |-> <<>>, errors |-> -1, warnings |-> -1]

NoStatus == 0 - 1

NothingPrinted == [issues |-> <<>>, counts |-> None]

\* the values of the variables of a function that is not running
ValIdle ==
  /\ schema = <<>>
  /\ env = EmptyEnv
  /\ strict_unknown = FALSE
  /\ case_insensitive_values = TRUE
  /\ issues = <<>>
  /\ idx = 1
  /\ report = NoReport

TokIdle ==
  /\ inner = <<>>
  /\ pos = 1
  /\ items = TokStart.items
  /\ current = TokStart.current
  /\ in_quote = TokStart.in_quote
  /\ quote_char = TokStart.quote_char
  /\ in_regex = TokStart.in_regex
  /\ regex_escaped = TokStart.regex_escaped

MainIdle ==
  /\ argv = [mode |-> "none"]
  /\ fs = [state |-> "none"]
  /\ schema_issues = <<>>
  /\ env_issues = <<>>
  /\ full_report = NoReport
  /\ printed = NothingPrinted
  /\ out_file = "absent"
  /\ status = NoStatus

FileIdle ==
  /\ lines = <<>>
  /\ i_line = 1
  /\ meta = MetaStart
  /\ setting_name = <<>>
  /\ assembled = <<>>

(***************************************************************************)
(* validate_env, step by step.                                             *)
(***************************************************************************)
\* validate_env is called: issues = []
Init ==
  /\ schema \in Schemas
  /\ env \in Envs
  /\ strict_unknown \in BOOLEAN
  /\ case_insensitive_values \in BOOLEAN
  /\ issues = <<>>
  /\ idx = 1
  /\ report = NoReport
  /\ pc = "unknown"
  /\ TokIdle
  /\ MainIdle
  /\ FileIdle

\* the unknown-key pass
UnknownPass ==
  /\ pc = "unknown"
  /\ issues' = issues \o UnknownIssues(schema, env, strict_unknown)
  /\ pc' = "schema"
  /\ UNCHANGED <<fileVars, args, idx, report, tokVars, mainVars>>

\* one iteration that puts its issue at the head of the list
CheckOption_Prepend ==
  /\ pc = "schema"
  /\ idx <= Len(schema)
  /\ issues' = OptionIssues(schema[idx], env, case_insensitive_values) \o issues
  /\ idx' = idx + 1
  /\ UNCHANGED <<fileVars, args, report, pc, tokVars, mainVars>>

\* one iteration of the loop over the schema
CheckOption ==
  /\ pc = "schema"
  /\ idx <= Len(schema)
  /\ issues' = issues \o OptionIssues(schema[idx], env, case_insensitive_values)
  /\ idx' = idx + 1
  /\ UNCHANGED <<fileVars, args, report, pc, tokVars, mainVars>>

\* the tally and the return
Return ==
  /\ pc = "schema"
  /\ idx > Len(schema)
  /\ report' = ValidationReport(issues)
  /\ pc' = "done"
  /\ UNCHANGED <<fileVars, args, issues, idx, tokVars, mainVars>>

Next == UnknownPass \/ CheckOption \/ Return

Spec == Init /\ [][Next]_vars

(***************************************************************************)
(* _tokenize_list, one character at a time.                                *)
(***************************************************************************)
TokAlphabet == {"a", ",", "'", "\"", "/", "\\", " "}

\* the list of the template of the specification's scenario:
\* '/a,b/', 'literal,with,comma'
ScenarioList ==
  <<"'", "/", "a", ",", "b", "/", "'", ",", " ", "'", "l", "i", "t", "e", "r", "a",
    "l", ",", "w", "i", "t", "h", ",", "c", "o", "m", "m", "a", "'">>

\* /\\/,a/ : a region closed after an escaped backslash, then a token
EscapedBackslashList == <<"/", "\\", "\\", "/", ",", "a", "/">>

\* /\/,a/,a : a region that an escaped slash does not close
EscapedSlashList == <<"/", "\\", "/", ",", "a", "/", ",", "a">>

TokInputs ==
  UNION {[1..n -> TokAlphabet] : n \in 0..MaxLen}
    \cup {ScenarioList, EscapedBackslashList, EscapedSlashList}

stripped == strip(inner)

TokState ==
  [items |-> items, current |-> current, in_quote |-> in_quote,
   quote_char |-> quote_char, in_regex |-> in_regex, regex_escaped |-> regex_escaped]

InitTok ==
  /\ inner \in TokInputs
  /\ pos = 1
  /\ items = TokStart.items
  /\ current = TokStart.current
  /\ in_quote = TokStart.in_quote
  /\ quote_char = TokStart.quote_char
  /\ in_regex = TokStart.in_regex
  /\ regex_escaped = TokStart.regex_escaped
  /\ pc = "scan"
  /\ ValIdle
  /\ MainIdle
  /\ FileIdle

\* one iteration of the while loop
ScanChar ==
  /\ pc = "scan"
  /\ pos <= Len(stripped)
  /\ LET st == TokStep(TokState, stripped[pos])
     IN /\ items' = st.items
        /\ current' = st.current
        /\ in_quote' = st.in_quote
        /\ quote_char' = st.quote_char
        /\ in_regex' = st.in_regex
        /\ regex_escaped' = st.regex_escaped
  /\ pos' = pos + 1
  /\ UNCHANGED <<fileVars, inner, pc, valVars, mainVars>>

\* the last token and the return
FinishTokens ==
  /\ pc = "scan"
  /\ pos > Len(stripped)
  /\ items' = Flushed(TokState)
  /\ pc' = "tokens"
  /\ UNCHANGED <<fileVars, inner, pos, current, in_quote, quote_char, in_regex, regex_escaped,
                 valVars, mainVars>>

NextTok == ScanChar \/ FinishTokens

SpecTok == InitTok /\ [][NextTok]_vars

(***************************************************************************)
(* main.  The files the exploration draws.                                 *)
(***************************************************************************)
Missing == [state |-> "missing", lines |-> <<>>]

Unreadable == [state |-> "unreadable", lines |-> <<>>]

File(content) == [state |-> "ok", lines |-> content]

QuotedInt == <<"'", "i", "n", "t", "'", ",">>

\* '80','443','/^[0-9]{4}$/'
PortValues ==
  <<"'", "8", "0", "'", ",", "'", "4", "4", "3", "'", ",", "'", "/">>
    \o FourDigitsText \o <<"/", "'">>

\* #A / name='A', / type='int', / required=true, / valid_values=[...] /
\* note='note' / (blank) / #B / type=bool / default=None
TplPort ==
  << Line("header", KeyA), Line("name", KeyA), Line("type", QuotedInt),
     Line("required", TrueToken), Line("valid_values", PortValues),
     Line("note", <<"'", "n", "o", "t", "e", "'">>), Line("text", <<>>),
     Line("header", KeyB), Line("type", <<"b", "o", "o", "l">>),
     Line("default", <<"N", "o", "n", "e">>) >>

\* #A / type=integer / #B
TplBadType ==
  << Line("header", KeyA), Line("type", <<"i", "n", "t", "e", "g", "e", "r">>),
     Line("header", KeyB) >>

\* #B / valid_values=['/[/'] / required=true
TplBadRegex ==
  << Line("header", KeyB), Line("valid_values", <<"'", "/", "[", "/", "'">>),
     Line("required", TrueToken) >>

\* #A / default='debug' / #B / name='A',
TplDuplicate ==
  << Line("header", KeyA), Line("default", <<"'", "d", "e", "b", "u", "g", "'">>),
     Line("header", KeyB), Line("name", KeyA) >>

\* # a comment / a line of text
TplNoBlocks == << Line("comment", <<>>), Line("text", <<"x">>) >>

\* #A / default='debug' / valid_values=[DEBUG] / #B / required=true / type=url
TplOptional ==
  << Line("header", KeyA), Line("default", <<"'", "d", "e", "b", "u", "g", "'">>),
     Line("valid_values", <<"D", "E", "B", "U", "G">>),
     Line("header", KeyB), Line("required", TrueToken),
     Line("type", <<"u", "r", "l">>) >>

Templates ==
  {TplPort, TplBadType, TplBadRegex, TplDuplicate, TplNoBlocks, TplOptional}

TemplateFiles == {Missing, Unreadable} \cup {File(t) : t \in Templates}

\* A=8080 / B=yes
EnvPort == << <<"A", "=", "8", "0", "8", "0">>, <<"B", "=", "y", "e", "s">> >>

\* A=70000 / junk / AB=0
EnvBad ==
  << <<"A", "=", "7", "0", "0", "0", "0">>, <<"j", "u", "n", "k">>,
     <<"A", "B", "=", "0">> >>

\* # c / A = 'Debug' # c / B=h://x
EnvDebug ==
  << <<"#", " ", "c">>,
     <<"A", " ", "=", " ", "'", "D", "e", "b", "u", "g", "'", " ", "#", " ", "c">>,
     <<"B", "=", "h", ":", "/", "/", "x">> >>

EnvFiles == {Missing, Unreadable} \cup {File(e) : e \in {EnvPort, EnvBad, EnvDebug, <<>>}}

\* the parsed command line (--example is always given)
AllArgvs ==
  [env_given : BOOLEAN, strict : BOOLEAN, format : {"text", "json"},
   case_sensitive_values : BOOLEAN, verbose : BOOLEAN, emit_markdown : BOOLEAN,
   emit_schema : BOOLEAN, scaffold : BOOLEAN, out_given : BOOLEAN, force : BOOLEAN]

\* the options a mode never reads are left at their argparse defaults
Argvs ==
  {a \in AllArgvs :
     /\ (a.out_given \/ a.force) => (a.scaffold /\ ~a.emit_markdown /\ ~a.emit_schema)
     /\ (a.env_given \/ a.strict \/ a.case_sensitive_values \/ a.format = "json")
          => (~a.scaffold /\ ~a.emit_markdown /\ ~a.emit_schema)}

\* the exit codes of the module docstring
EXIT_SUCCESS == 0

EXIT_VALIDATION == 1

EXIT_PARSE == 2

(***************************************************************************)
(* main, from its call to its return.                                      *)
(***************************************************************************)
RECURSIVE WithLevel(_, _)
WithLevel(list, level) ==
  IF list = <<>> THEN <<>>
  ELSE (IF list[1].level = level THEN <<list[1]>> ELSE <<>>)
         \o WithLevel(Tail(list), level)

\* _filter_issues(issues, verbose)
filter_issues(list, verbose) == IF verbose THEN list ELSE WithLevel(list, "error")

\* parse_errors of the validation path, from a list that leaves out the
\* issues of the configuration file
parse_errors_SchemaOnly(s_issues, e_issues) == WithLevel(s_issues, "error")

\* parse_errors = [i for i in schema_issues + env_issues if i.level == "error"]
parse_errors(s_issues, e_issues) == WithLevel(s_issues \o e_issues, "error")

Counts(list) ==
  Some([errors |-> CountLevel(list, "error"), warnings |-> CountLevel(list, "warning")])

InitMain ==
  /\ argv \in Argvs
  /\ fs \in [example : TemplateFiles, envfile : EnvFiles, out_locked : BOOLEAN]
  /\ out_file \in {"absent", "old"}
  /\ schema_issues = <<>>
  /\ env_issues = <<>>
  /\ full_report = NoReport
  /\ printed = NothingPrinted
  /\ status = NoStatus
  /\ pc = "main"
  /\ ValIdle
  /\ TokIdle
  /\ FileIdle

Exit(code, shown) ==
  /\ status' = code
  /\ printed' = shown
  /\ pc' = "exit"

\* schema, schema_issues = parse_env_example_schema(args.example)
ParseTemplate ==
  /\ pc = "main"
  /\ LET r == parse_env_example_schema(fs.example)
     IN schema' = r.schema /\ schema_issues' = r.issues
  /\ pc' = "parsed"
  /\ UNCHANGED <<fileVars, env, strict_unknown, case_insensitive_values, issues, idx, report,
                 tokVars, argv, fs, env_issues, full_report, printed, out_file, status>>

mainLocals ==
  <<valVars, tokVars, argv, fs, schema_issues, env_issues, full_report>>

\* --emit-markdown: the parse issues go to stderr, the table to stdout
EmitMarkdown ==
  /\ pc = "parsed"
  /\ argv.emit_markdown
  /\ Exit(EXIT_SUCCESS,
          [issues |-> filter_issues(schema_issues, argv.verbose), counts |-> None])
  /\ UNCHANGED <<fileVars, mainLocals, out_file>>

\* --emit-schema: the schema and the parse issues as JSON
EmitSchema ==
  /\ pc = "parsed"
  /\ ~argv.emit_markdown /\ argv.emit_schema
  /\ Exit(EXIT_SUCCESS,
          [issues |-> filter_issues(schema_issues, argv.verbose), counts |-> None])
  /\ UNCHANGED <<fileVars, mainLocals, out_file>>

Scaffolding ==
  pc = "parsed" /\ ~argv.emit_markdown /\ ~argv.emit_schema /\ argv.scaffold

ScaffoldWarnings ==
  [issues |-> IF argv.verbose THEN WithLevel(schema_issues, "warning") ELSE <<>>,
   counts |-> None]

\* --scaffold with parse errors
ScaffoldParseErrors ==
  /\ Scaffolding
  /\ WithLevel(schema_issues, "error") # <<>>
  /\ Exit(EXIT_PARSE, [issues |-> WithLevel(schema_issues, "error"), counts |-> None])
  /\ UNCHANGED <<fileVars, mainLocals, out_file>>

\* --scaffold --out on a file that exists, without --force
ScaffoldOutExists ==
  /\ Scaffolding
  /\ WithLevel(schema_issues, "error") = <<>>
  /\ argv.out_given /\ out_file # "absent" /\ ~argv.force
  /\ Exit(EXIT_PARSE, ScaffoldWarnings)
  /\ UNCHANGED <<fileVars, mainLocals, out_file>>

\* --scaffold --out when open() or write() raises: open(path, "w") may have
\* emptied the file by then
ScaffoldWriteFails ==
  /\ Scaffolding
  /\ WithLevel(schema_issues, "error") = <<>>
  /\ argv.out_given /\ (out_file = "absent" \/ argv.force)
  /\ fs.out_locked
  /\ out_file' \in {out_file, "truncated"}
  /\ Exit(EXIT_PARSE, ScaffoldWarnings)
  /\ UNCHANGED <<fileVars, mainLocals>>

\* a scaffold that writes over whatever is there
ScaffoldWrite_Overwrite ==
  /\ Scaffolding
  /\ WithLevel(schema_issues, "error") = <<>>
  /\ argv.out_given
  /\ ~fs.out_locked
  /\ out_file' = "scaffold"
  /\ Exit(EXIT_SUCCESS, ScaffoldWarnings)
  /\ UNCHANGED <<fileVars, mainLocals>>

\* --scaffold --out writes the file
ScaffoldWrite ==
  /\ Scaffolding
  /\ WithLevel(schema_issues, "error") = <<>>
  /\ argv.out_given /\ (out_file = "absent" \/ argv.force)
  /\ ~fs.out_locked
  /\ out_file' = "scaffold"
  /\ Exit(EXIT_SUCCESS, ScaffoldWarnings)
  /\ UNCHANGED <<fileVars, mainLocals>>

\* --scaffold to stdout
ScaffoldPrint ==
  /\ Scaffolding
  /\ WithLevel(schema_issues, "error") = <<>>
  /\ ~argv.out_given
  /\ Exit(EXIT_SUCCESS, ScaffoldWarnings)
  /\ UNCHANGED <<fileVars, mainLocals, out_file>>

Validating ==
  ~argv.emit_markdown /\ ~argv.emit_schema /\ ~argv.scaffold

\* validation without --env
EnvRequired ==
  /\ pc = "parsed"
  /\ Validating
  /\ ~argv.env_given
  /\ Exit(EXIT_PARSE, NothingPrinted)
  /\ UNCHANGED <<fileVars, mainLocals, out_file>>

\* env, env_issues = load_dotenv(args.env)
LoadEnv ==
  /\ pc = "parsed"
  /\ Validating
  /\ argv.env_given
  /\ LET r == load_dotenv(fs.envfile)
     IN env' = r.env /\ env_issues' = r.issues
  /\ pc' = "loaded"
  /\ UNCHANGED <<fileVars, schema, strict_unknown, case_insensitive_values, issues, idx, report,
                 tokVars, argv, fs, schema_issues, full_report, printed, out_file,
                 status>>

\* the parse errors are printed and main returns
ParseErrorExit ==
  /\ pc = "loaded"
  /\ parse_errors(schema_issues, env_issues) # <<>>
  /\ LET to_print_objs ==
           parse_errors(schema_issues, env_issues)
             \o (IF argv.verbose
                 THEN WithLevel(schema_issues \o env_issues, "warning")
                 ELSE <<>>)
     IN Exit(EXIT_PARSE,
             [issues |-> to_print_objs,
              counts |-> IF argv.format = "json" THEN Counts(to_print_objs) ELSE None])
  /\ UNCHANGED <<fileVars, mainLocals, out_file>>

\* report = validate_env(schema, env, strict_unknown=..., case_insensitive_values=...)
Validate ==
  /\ pc = "loaded"
  /\ parse_errors(schema_issues, env_issues) = <<>>
  /\ strict_unknown' = argv.strict
  /\ case_insensitive_values' = ~argv.case_sensitive_values
  /\ report' = validate_env(schema, env, argv.strict, ~argv.case_sensitive_values)
  /\ pc' = "validated"
  /\ UNCHANGED <<fileVars, schema, env, issues, idx, tokVars, mainVars>>

FullIssues == schema_issues \o env_issues \o report.issues

ExitStatus == IF report.errors = 0 THEN EXIT_SUCCESS ELSE EXIT_VALIDATION

\* the combined report as JSON: the counts are those of the filtered list
ReportJson ==
  /\ pc = "validated"
  /\ argv.format = "json"
  /\ full_report' = ValidationReport(FullIssues)
  /\ LET filtered == filter_issues(FullIssues, argv.verbose)
     IN Exit(ExitStatus, [issues |-> filtered, counts |-> Counts(filtered)])
  /\ UNCHANGED <<fileVars, valVars, tokVars, argv, fs, schema_issues, env_issues, out_file>>

\* print_human_report(full_report, verbose): the filtered issues, then the
\* summary line with the report's own counts; no summary when nothing is shown
ReportText ==
  /\ pc = "validated"
  /\ argv.format = "text"
  /\ full_report' = ValidationReport(FullIssues)
  /\ LET filtered == filter_issues(FullIssues, argv.verbose)
     IN Exit(ExitStatus,
             [issues |-> filtered,
              counts |-> IF filtered = <<>> THEN None
                         ELSE Some([errors |-> ValidationReport(FullIssues).errors,
                                    warnings |-> ValidationReport(FullIssues).warnings])])
  /\ UNCHANGED <<fileVars, valVars, tokVars, argv, fs, schema_issues, env_issues, out_file>>

NextMain ==
  \/ ParseTemplate
  \/ EmitMarkdown
  \/ EmitSchema
  \/ ScaffoldParseErrors
  \/ ScaffoldOutExists
  \/ ScaffoldWriteFails
  \/ ScaffoldWrite
  \/ ScaffoldPrint
  \/ EnvRequired
  \/ LoadEnv
  \/ ParseErrorExit
  \/ Validate
  \/ ReportJson
  \/ ReportText

SpecMain == InitMain /\ [][NextMain]_vars

(***************************************************************************)
(* parse_env_example_schema, line by line, on the text of the lines.       *)
(***************************************************************************)
HeaderA == <<"#", "A">>

HeaderB == <<"#", "B">>

Hash == <<"#", " ">>

\* # name='A',
NameIsA == Hash \o <<"n", "a", "m", "e", "=", "'", "A", "'", ",">>

\* # type=int
TypeInt == Hash \o <<"t", "y", "p", "e", "=", "i", "n", "t">>

\* # type=integer
TypeInteger == Hash \o <<"t", "y", "p", "e", "=", "i", "n", "t", "e", "g", "e", "r">>

ValidValuesIs == Hash \o <<"v", "a", "l", "i", "d", "_", "v", "a", "l", "u", "e", "s", "=">>

\* # valid_values=['a']
ValuesA == ValidValuesIs \o <<"[", "'", "a", "'", "]">>

\* # valid_values=['/[/']
ValuesBadRegex == ValidValuesIs \o <<"[", "'", "/", "[", "/", "'", "]">>

\* # required=true
RequiredTrue == Hash \o <<"r", "e", "q", "u", "i", "r", "e", "d", "=", "t", "r", "u", "e">>

\* # text
PlainComment == Hash \o <<"t", "e", "x", "t">>

BlankLine == <<>>

BlockTexts ==
  {HeaderA, HeaderB, NameIsA, TypeInt, TypeInteger, ValuesA, ValuesBadRegex,
   RequiredTrue, PlainComment, BlankLine}

RECURSIVE SeqsUpTo(_, _)
SeqsUpTo(S, n) ==
  IF n = 0 THEN {<<>>}
  ELSE SeqsUpTo(S, n - 1)
         \cup {Append(q, x) : q \in {r \in SeqsUpTo(S, n - 1) : Len(r) = n - 1}, x \in S}

BlockTemplates == SeqsUpTo(BlockTexts, MaxLines)

NameIs == Hash \o <<"n", "a", "m", "e", "=">>

TypeIs == Hash \o <<"t", "y", "p", "e", "=">>

DefaultIs == Hash \o <<"d", "e", "f", "a", "u", "l", "t", "=">>

RequiredIs == Hash \o <<"r", "e", "q", "u", "i", "r", "e", "d", "=">>

NoteIs == Hash \o <<"n", "o", "t", "e", "=">>

\* meta-lines of the five kinds that take one value, without and with the
\* trailing comma of the module docstring
MetaBases ==
  {NameIs \o v : v \in {<<"'", "B", "'">>, <<"'", "B", "'", ",">>}}
    \cup {TypeIs \o v : v \in {<<"i", "n", "t">>, <<"'", "i", "n", "t", "'", ",">>,
                               <<"u", "r", "l">>}}
    \cup {DefaultIs \o v : v \in {<<"'", "v", "'">>, <<"'", "v", "'", ",">>,
                                  <<"N", "o", "n", "e">>, <<"5">>}}
    \cup {RequiredIs \o v : v \in {TrueToken, Append(TrueToken, ","), FalseToken}}
    \cup {NoteIs \o v : v \in {<<"'", "n", "'">>, <<"'", "n", "'", ",">>, <<"n">>}}

\* "  # c" and " #c"
InlineComments == {<<" ", " ", "#", " ", "c">>, <<" ", "#", "c">>}

\* block A holds the meta-line, block B the same line with an inline comment
CommentTemplates ==
  {<<HeaderA, b, HeaderB, b \o c>> : b \in MetaBases, c \in InlineComments}

\* the value tokens of a default= line
DefaultTokens ==
  { <<"N", "o", "n", "e">>, <<"N", "o", "n", "e", ",">>, <<"n", "o", "n", "e">>,
    <<"N", "O", "N", "E">>, <<"'", "N", "o", "n", "e", "'">>,
    <<"\"", "N", "o", "n", "e", "\"">>, <<"'", "'">>, <<"'", "'", ",">>,
    <<"'", "v", "'">>, <<"v">>, <<"N", "o", "n">>, <<"N", "o", "n", "e", "s">> }

DefaultTemplates == {<<HeaderA, DefaultIs \o t>> : t \in DefaultTokens}

Indent == <<"#", " ", " ", " ", " ">>

\* the list of the module docstring: "valid_values=[", one item per line, "]"
ListOverLines ==
  << HeaderA,
     Indent \o <<"v", "a", "l", "i", "d", "_", "v", "a", "l", "u", "e", "s", "=", "[">>,
     Indent \o <<" ", "'", "a", "'", ",">>,
     Indent \o <<" ", "'", "/">> \o FourDigitsText \o <<"/", "'", ",">>,
     Indent \o <<"]">> >>

\* the same list on one line
ListOnOneLine ==
  << HeaderA,
     Indent \o <<"v", "a", "l", "i", "d", "_", "v", "a", "l", "u", "e", "s", "=", "[">>
       \o <<"'", "a", "'", ",", " ", "'", "/">> \o FourDigitsText
       \o <<"/", "'", ",", "]">> >>

ListTemplates == {ListOverLines, ListOnOneLine}

InitParse ==
  /\ lines \in BlockTemplates \cup CommentTemplates \cup DefaultTemplates \cup ListTemplates
  /\ i_line = 1
  /\ meta = MetaStart
  /\ setting_name = <<>>
  /\ assembled = <<>>
  /\ schema = <<>>
  /\ schema_issues = <<>>
  /\ pc = "scanning"
  /\ env = EmptyEnv
  /\ strict_unknown = FALSE
  /\ case_insensitive_values = TRUE
  /\ issues = <<>>
  /\ idx = 1
  /\ report = NoReport
  /\ TokIdle
  /\ argv = [mode |-> "none"]
  /\ fs = [state |-> "none"]
  /\ env_issues = <<>>
  /\ full_report = NoReport
  /\ printed = NothingPrinted
  /\ out_file = "absent"
  /\ status = NoStatus

parseFrame ==
  <<env, strict_unknown, case_insensitive_values, issues, idx, report, tokVars,
    argv, fs, env_issues, full_report, printed, out_file, status, lines>>

\* the outer loop on a line that is no header: i += 1; continue
SkipLine ==
  /\ pc = "scanning"
  /\ i_line <= Len(lines)
  /\ ~SETTING_HEADER_RE(lines[i_line]).ok
  /\ i_line' = i_line + 1
  /\ UNCHANGED <<pc, schema, schema_issues, meta, setting_name, assembled, parseFrame>>

\* the outer loop on a header: setting_name = m.group(1); i += 1; meta = {...}
OpenBlock ==
  /\ pc = "scanning"
  /\ i_line <= Len(lines)
  /\ SETTING_HEADER_RE(lines[i_line]).ok
  /\ setting_name' = SETTING_HEADER_RE(lines[i_line]).group
  /\ meta' = MetaStart
  /\ assembled' = Append(assembled, [header |-> i_line, option |-> None])
  /\ i_line' = i_line + 1
  /\ pc' = "in_block"
  /\ UNCHANGED <<schema, schema_issues, parseFrame>>

\* the inner loop goes on: a comment line that is no header
BlockGoesOn ==
  /\ i_line <= Len(lines)
  /\ IsCommentLine(lines[i_line])
  /\ ~SETTING_HEADER_RE(lines[i_line]).ok

Applied(acc) == meta' = acc.meta /\ schema_issues' = acc.issues

\* one pass of the inner loop: the if/elif chain, then i += 1
ReadMeta ==
  /\ pc = "in_block"
  /\ BlockGoesOn
  /\ Applied(ApplyMeta([meta |-> meta, issues |-> schema_issues, next |-> i_line],
                       Classify(lines[i_line]), setting_name))
  /\ i_line' = i_line + 1
  /\ UNCHANGED <<pc, schema, setting_name, assembled, parseFrame>>

Closed(option) ==
  /\ schema_issues' =
       (IF option.name \in SchemaKeys(schema)
        THEN Append(schema_issues, ParseError("warning", option.name))
        ELSE schema_issues)
  /\ schema' = Inserted(schema, option)
  /\ assembled' = [assembled EXCEPT ![Len(assembled)].option = Some(option)]

\* a block end that steps over the line that ended the block
CloseBlock_Consume ==
  /\ pc = "in_block"
  /\ ~BlockGoesOn
  /\ Closed(OptionOf(meta, setting_name))
  /\ pc' = "scanning"
  /\ i_line' = i_line + 1
  /\ UNCHANGED <<meta, setting_name, parseFrame>>

\* the inner loop ends without i += 1: the option is built and stored
CloseBlock ==
  /\ pc = "in_block"
  /\ ~BlockGoesOn
  /\ Closed(OptionOf(meta, setting_name))
  /\ pc' = "scanning"
  /\ UNCHANGED <<i_line, meta, setting_name, parseFrame>>

\* the outer loop ends: the warning of a template without blocks; return
FinishParse ==
  /\ pc = "scanning"
  /\ i_line > Len(lines)
  /\ schema_issues' =
       (IF schema = <<>> THEN Append(schema_issues, ParseError("warning", NoSetting))
        ELSE schema_issues)
  /\ pc' = "parsed_schema"
  /\ UNCHANGED <<i_line, schema, meta, setting_name, assembled, parseFrame>>

NextParse ==
  \/ SkipLine
  \/ OpenBlock
  \/ ReadMeta
  \/ CloseBlock
  \/ FinishParse

SpecParse == InitParse /\ [][NextParse]_vars

(***************************************************************************)
(* load_dotenv, line by line.                                              *)
(***************************************************************************)
\* A=1, A=2, B=1, " A = 3 ", junk, =x, "# c" and the blank line
EnvTexts ==
  { <<"A", "=", "1">>, <<"A", "=", "2">>, <<"B", "=", "1">>,
    <<" ", "A", " ", "=", " ", "3", " ">>, <<"j", "u", "n", "k">>, <<"=", "x">>,
    <<"#", " ", "c">>, <<>> }

EnvTemplates == SeqsUpTo(EnvTexts, MaxEnvLines)

ValueAlphabet == {"a", "#", " ", "\t", "'", "\""}

EnvValues == SeqsUpTo(ValueAlphabet, MaxValue)

AIs == <<"A", "=">>

\* the one-line files A=<value>
ValueFiles == {<<AIs \o v>> : v \in EnvValues}

InitEnv ==
  /\ lines \in EnvTemplates \cup ValueFiles
  /\ i_line = 1
  /\ env = EmptyEnv
  /\ env_issues = <<>>
  /\ pc = "loading"
  /\ meta = MetaStart
  /\ setting_name = <<>>
  /\ assembled = <<>>
  /\ schema = <<>>
  /\ strict_unknown = FALSE
  /\ case_insensitive_values = TRUE
  /\ issues = <<>>
  /\ idx = 1
  /\ report = NoReport
  /\ TokIdle
  /\ argv = [mode |-> "none"]
  /\ fs = [state |-> "none"]
  /\ schema_issues = <<>>
  /\ full_report = NoReport
  /\ printed = NothingPrinted
  /\ out_file = "absent"
  /\ status = NoStatus

envFrame ==
  <<schema, strict_unknown, case_insensitive_values, issues, idx, report, tokVars,
    argv, fs, schema_issues, full_report, printed, out_file, status, lines,
    meta, setting_name, assembled>>

\* s = raw.strip(); not s or s.startswith("#")
BlankOrComment(raw) == strip(raw) = <<>> \/ StartsWith(strip(raw), <<"#">>)

\* a blank line or a comment: continue
SkipEnvLine ==
  /\ pc = "loading"
  /\ i_line <= Len(lines)
  /\ BlankOrComment(lines[i_line])
  /\ i_line' = i_line + 1
  /\ UNCHANGED <<pc, env, env_issues, envFrame>>

\* a reader that gives up at the first line it cannot match
BadEnvLine_Stop ==
  /\ pc = "loading"
  /\ i_line <= Len(lines)
  /\ ~BlankOrComment(lines[i_line])
  /\ ~MatchEnvLine(lines[i_line]).ok
  /\ env_issues' = Append(env_issues, ParseError("warning", NoSetting))
  /\ pc' = "loaded_env"
  /\ UNCHANGED <<i_line, env, envFrame>>

\* a line ENV_LINE_RE does not match: a warning; continue
BadEnvLine ==
  /\ pc = "loading"
  /\ i_line <= Len(lines)
  /\ ~BlankOrComment(lines[i_line])
  /\ ~MatchEnvLine(lines[i_line]).ok
  /\ env_issues' = Append(env_issues, ParseError("warning", NoSetting))
  /\ i_line' = i_line + 1
  /\ UNCHANGED <<pc, env, envFrame>>

Stored(m) ==
  env' = [k \in DOMAIN env \cup {m.key} |->
            IF k = m.key THEN parse_env_value(strip(m.rest)) ELSE env[k]]

\* env[key] = _parse_env_value(m.group(2).strip())
StoreEnvLine ==
  /\ pc = "loading"
  /\ i_line <= Len(lines)
  /\ ~BlankOrComment(lines[i_line])
  /\ MatchEnvLine(lines[i_line]).ok
  /\ Stored(MatchEnvLine(lines[i_line]))
  /\ i_line' = i_line + 1
  /\ UNCHANGED <<pc, env_issues, envFrame>>

\* the file is read to its end: return env, issues
FinishLoad ==
  /\ pc = "loading"
  /\ i_line > Len(lines)
  /\ pc' = "loaded_env"
  /\ UNCHANGED <<i_line, env, env_issues, envFrame>>

NextEnv ==
  \/ SkipEnvLine
  \/ BadEnvLine
  \/ StoreEnvLine
  \/ FinishLoad

SpecEnv == InitEnv /\ [][NextEnv]_vars

(***************************************************************************)
(* Properties of validate_env, stated on the report it returns.            *)
(***************************************************************************)
Returned_ == pc = "done"

\* positions of the returned issues that name the setting
IssuesOf(name) ==
  {k \in 1..Len(report.issues) : report.issues[k].setting = name}

IssuesWithCode(code) ==
  {k \in 1..Len(report.issues) : report.issues[k].code = code}

Absent(i) == schema[i].name \notin DOMAIN env

Coerces(i) ==
  /\ schema[i].name \in DOMAIN env
  /\ coerce_by_type(env[schema[i].name], schema[i].type_name).ok

FailsCoercion(i) ==
  /\ schema[i].name \in DOMAIN env
  /\ ~coerce_by_type(env[schema[i].name], schema[i].type_name).ok

\* C1: an option absent from the configuration gets exactly one issue; it is
\* a 'missing' issue, an error when the option is required and a warning
\* when it is not, whatever its default and whatever the other options.
C1_MissingExactlyOnce ==
  Returned_ =>
    \A i \in 1..Len(schema) :
      Absent(i) =>
        /\ Cardinality(IssuesOf(schema[i].name)) = 1
        /\ \A k \in IssuesOf(schema[i].name) :
             /\ report.issues[k].code = "missing"
             /\ report.issues[k].level =
                  (IF schema[i].required THEN "error" ELSE "warning")

\* a required option with a default is absent, next to another option,
\* and so is an optional one without a default
C1_Witness ==
  /\ Returned_
  /\ Len(schema) = 2
  /\ \E i \in 1..2 : Absent(i) /\ schema[i].required /\ schema[i].default.some
  /\ \E i \in 1..2 : ~Absent(i)

C1_WitnessOptional ==
  /\ Returned_
  /\ \E i \in 1..Len(schema) :
       Absent(i) /\ ~schema[i].required /\ ~schema[i].default.some

\* C2: a present value that fails coercion gets exactly one issue, an
\* error/type_mismatch, and so no invalid_value, whatever the allow-list.
C2_TypeMismatchOnly ==
  Returned_ =>
    \A i \in 1..Len(schema) :
      FailsCoercion(i) =>
        /\ Cardinality(IssuesOf(schema[i].name)) = 1
        /\ \A k \in IssuesOf(schema[i].name) :
             /\ report.issues[k].code = "type_mismatch"
             /\ report.issues[k].level = "error"

\* a value fails coercion for an option that declares literals and a
\* pattern, none of which the value matches
C2_Witness ==
  /\ Returned_
  /\ \E i \in 1..Len(schema) :
       /\ FailsCoercion(i)
       /\ schema[i].valid_literals # <<>>
       /\ schema[i].compiled_regex # <<>>

\* the claim's equality of a value with an allowed literal
EqualsLiteral(option, raw, lit, case_insensitive) ==
  LET v == coerce_by_type(raw, option.type_name)
      l == coerce_by_type(lit, option.type_name)
  IN IF option.type_name \in {"bool", "int", "float"}
     THEN l.ok /\ l.py = v.py
     ELSE IF case_insensitive THEN lower(v.canon) = lower(lit)
     ELSE v.canon = lit

\* the claim's condition for error/invalid_value
NotAllowed(option, raw, case_insensitive) ==
  /\ option.valid_literals # <<>> \/ option.compiled_regex # <<>>
  /\ \A j \in 1..Len(option.valid_literals) :
       ~EqualsLiteral(option, raw, option.valid_literals[j], case_insensitive)
  /\ \A j \in 1..Len(option.compiled_regex) :
       ~fullmatch(option.compiled_regex[j], raw)

\* C3: a present value that coerces gets error/invalid_value exactly when
\* the option declares a literal or a pattern, the value equals no literal
\* (typed equality for bool/int/float, canonical string under the call's
\* case mode for string/url) and no pattern matches the whole raw value;
\* otherwise it gets no issue.  The issue lists the literals, then the
\* pattern display forms.
C3_InvalidValueIff ==
  Returned_ =>
    \A i \in 1..Len(schema) :
      Coerces(i) =>
        LET hits == IssuesOf(schema[i].name)
        IN IF NotAllowed(schema[i], env[schema[i].name], case_insensitive_values)
           THEN /\ Cardinality(hits) = 1
                /\ \A k \in hits :
                     /\ report.issues[k].code = "invalid_value"
                     /\ report.issues[k].level = "error"
                     /\ report.issues[k].details.allowed =
                          schema[i].valid_literals \o schema[i].valid_regex
           ELSE hits = {}

\* invalid_value is reported for a value of which a pattern matches a
\* prefix only, next to literals
C3_Witness ==
  /\ Returned_
  /\ \E i \in 1..Len(schema) :
       /\ Coerces(i)
       /\ schema[i].valid_literals # <<>>
       /\ schema[i].compiled_regex # <<>>
       /\ \E j \in 1..Len(schema[i].compiled_regex) :
            PrefixMatch(schema[i].compiled_regex[j], env[schema[i].name])
       /\ \E k \in IssuesOf(schema[i].name) :
            report.issues[k].code = "invalid_value"

\* a value is accepted by a pattern alone, and one by a typed literal
\* whose text differs from the value
C3_WitnessAccepted ==
  /\ Returned_
  /\ \E i \in 1..Len(schema) :
       /\ Coerces(i)
       /\ RegexOk(schema[i], env[schema[i].name])
       /\ IssuesOf(schema[i].name) = {}
  /\ \E i \in 1..Len(schema) :
       /\ Coerces(i)
       /\ schema[i].type_name = "int"
       /\ ~RegexOk(schema[i], env[schema[i].name])
       /\ \A j \in 1..Len(schema[i].valid_literals) :
            schema[i].valid_literals[j] # env[schema[i].name]
       /\ IssuesOf(schema[i].name) = {}

UnknownKeys == DOMAIN env \ SchemaKeys(schema)

\* C4: under strict_unknown each configuration key outside the schema gets
\* exactly one issue, an error/unknown, and the unknown issues are in
\* ascending key order; without it there is no unknown issue and no issue
\* for such a key.
C4_UnknownKeys ==
  Returned_ =>
    IF strict_unknown
    THEN /\ \A key \in UnknownKeys :
              /\ Cardinality(IssuesOf(key)) = 1
              /\ \A k \in IssuesOf(key) :
                   /\ report.issues[k].code = "unknown"
                   /\ report.issues[k].level = "error"
         /\ \A k \in IssuesWithCode("unknown") :
              report.issues[k].setting \in UnknownKeys
         /\ \A k1, k2 \in IssuesWithCode("unknown") :
              k1 < k2 => StrLess(report.issues[k1].setting, report.issues[k2].setting)
    ELSE /\ IssuesWithCode("unknown") = {}
         /\ \A key \in UnknownKeys : IssuesOf(key) = {}

\* strict mode with two undeclared keys, the longer one sorting first
C4_Witness ==
  /\ Returned_
  /\ strict_unknown
  /\ {KeyAB, KeyB} \subseteq UnknownKeys
  /\ Len(schema) = 1

C4_WitnessLax ==
  /\ Returned_
  /\ ~strict_unknown
  /\ UnknownKeys # {}
  /\ Len(report.issues) > 0

SchemaPassCodes == {"missing", "type_mismatch", "invalid_value"}

SchemaPassIssues ==
  {k \in 1..Len(report.issues) : report.issues[k].code \in SchemaPassCodes}

PositionOf(name) == CHOOSE i \in 1..Len(schema) : schema[i].name = name

InSchemaOrder ==
  \A k1, k2 \in SchemaPassIssues :
    k1 < k2 =>
      PositionOf(report.issues[k1].setting) < PositionOf(report.issues[k2].setting)

\* C6 as stated: the issues of the per-schema-entry pass come first, in
\* schema order, and no unknown issue precedes one of them.
C6_SchemaPassFirst ==
  Returned_ =>
    /\ InSchemaOrder
    /\ \A k1 \in IssuesWithCode("unknown"), k2 \in SchemaPassIssues : k2 < k1

\* C6 amended: the unknown issues come first, and the issues of the
\* per-schema-entry pass follow all of them, in schema insertion order.
C6_UnknownPassFirst ==
  Returned_ =>
    /\ InSchemaOrder
    /\ \A k1 \in IssuesWithCode("unknown"), k2 \in SchemaPassIssues : k1 < k2

\* an unknown issue and one issue for each of two options, declared in
\* descending name order
C6_Witness ==
  /\ Returned_
  /\ IssuesWithCode("unknown") # {}
  /\ Len(schema) = 2
  /\ StrLess(schema[2].name, schema[1].name)
  /\ Cardinality(SchemaPassIssues) = 2

(***************************************************************************)
(* Properties of _tokenize_list, stated on the tokens it returns.          *)
(***************************************************************************)
TokensReturned == pc = "tokens"

\* the number of backslashes that end right before position k
RECURSIVE BackslashRun(_, _)
BackslashRun(t, k) ==
  IF k > 1 /\ t[k - 1] = "\\" THEN 1 + BackslashRun(t, k - 1) ELSE 0

\* where the text is after its first k characters: at the top level, in a
\* quoted string or in a regex region.  A quoted string ends at the next
\* occurrence of its quote; a regex region ends at the next '/' that an
\* odd run of backslashes does not precede.
RECURSIVE RegionAfter(_, _)
RegionAfter(t, k) ==
  IF k = 0 THEN "top"
  ELSE LET before == RegionAfter(t, k - 1)
       IN CASE before = "top" ->
                 (CASE t[k] = "'" -> "single"
                    [] t[k] = "\"" -> "double"
                    [] t[k] = "/" -> "regex"
                    [] OTHER -> "top")
            [] before = "single" -> (IF t[k] = "'" THEN "top" ELSE "single")
            [] before = "double" -> (IF t[k] = "\"" THEN "top" ELSE "double")
            [] before = "regex" ->
                 (IF t[k] = "/" /\ BackslashRun(t, k) % 2 = 0 THEN "top" ELSE "regex")

\* the commas outside every quoted string and regex region
TopCommas(t) == {k \in 1..Len(t) : t[k] = "," /\ RegionAfter(t, k - 1) = "top"}

\* the text from position from on, cut at the given positions, each piece
\* trimmed and the empty ones left out
RECURSIVE PiecesFrom(_, _, _)
PiecesFrom(t, from, cuts) ==
  LET ahead == {c \in cuts : c >= from}
      cut == IF ahead = {} THEN Len(t) + 1
             ELSE CHOOSE c \in ahead : \A o \in ahead : c <= o
      piece == strip(SubSeq(t, from, cut - 1))
      here == IF piece = <<>> THEN <<>> ELSE <<piece>>
  IN IF ahead = {} THEN here ELSE here \o PiecesFrom(t, cut + 1, cuts)

ScenarioTokens ==
  << <<"'", "/", "a", ",", "b", "/", "'">>,
     <<"'", "l", "i", "t", "e", "r", "a", "l", ",", "w", "i", "t", "h", ",",
       "c", "o", "m", "m", "a", "'">> >>

\* C9: the tokens are the pieces of the text between the commas that lie
\* outside every quoted string and every regex region (a region ends at
\* the next '/' not escaped by a backslash); the list
\* '/a,b/', 'literal,with,comma' gives exactly two tokens.
C9_SplitsAtTopLevelCommas ==
  TokensReturned =>
    /\ items = PiecesFrom(stripped, 1, TopCommas(stripped))
    /\ inner = ScenarioList => items = ScenarioTokens

\* the scenario's list has been tokenized
C9_Witness ==
  /\ TokensReturned
  /\ inner = ScenarioList
  /\ Len(items) = 2

\* an escaped slash kept a region open over a comma, and a slash after an
\* escaped backslash closed one before a comma
C9_WitnessEscapedSlash ==
  /\ TokensReturned
  /\ inner = EscapedSlashList
  /\ items = <<SubSeq(inner, 1, 6), <<"a">>>>

C9_WitnessEscapedBackslash ==
  /\ TokensReturned
  /\ inner = EscapedBackslashList
  /\ items = <<SubSeq(inner, 1, 4), <<"a", "/">>>>

\* C10: joining the tokens with commas and tokenizing again gives the same
\* tokens.
C10_Idempotent ==
  TokensReturned => tokenize_list(JoinComma(items)) = items

\* an empty token was dropped and the last token is an unterminated quote
C10_Witness ==
  /\ TokensReturned
  /\ Len(items) = 2
  /\ Cardinality(TopCommas(stripped)) = 2
  /\ in_quote

\* the last token is an unterminated regex region
C10_WitnessRegex ==
  /\ TokensReturned
  /\ Len(items) = 2
  /\ in_regex

(***************************************************************************)
(* Properties of parse_env_example_schema, under SpecParse.                *)
(***************************************************************************)
SchemaParsed == pc = "parsed_schema"

\* the line-by-line run returns what the function gives on the whole file
ParseAgrees ==
  SchemaParsed =>
    parse_env_example_schema(File(ClassifyAll(lines)))
      = [schema |-> schema, issues |-> schema_issues]

\* the option built for the k-th header of the template
Assembled(k) == assembled[k].option.val

WithoutName(o) == [o EXCEPT !.name = <<>>]

CommentCase == SchemaParsed /\ lines \in CommentTemplates

\* C11: a name=, type=, default=, required= or note= line followed by an
\* inline comment gives the same option definition as the line without the
\* comment.
C11_InlineCommentIgnored ==
  CommentCase =>
    /\ WithoutName(Assembled(1)) = WithoutName(Assembled(2))
    /\ StartsWith(lines[2], NameIs) => Assembled(1).name = Assembled(2).name

\* the part of C11 that the patterns with a comment group give: name=,
\* type= and default= lines
C11_CommentGroupKinds ==
  (CommentCase /\ \E w \in {NameIs, TypeIs, DefaultIs} : StartsWith(lines[2], w)) =>
    /\ WithoutName(Assembled(1)) = WithoutName(Assembled(2))
    /\ StartsWith(lines[2], NameIs) => Assembled(1).name = Assembled(2).name

OneSetting(v) == [k \in {KeyA} |-> v]

RejectedValue(sch, v) ==
  \E k \in 1..Len(validate_env(sch, OneSetting(v), FALSE, TRUE).issues) :
    /\ validate_env(sch, OneSetting(v), FALSE, TRUE).issues[k].code = "invalid_value"
    /\ validate_env(sch, OneSetting(v), FALSE, TRUE).issues[k].level = "error"
    /\ validate_env(sch, OneSetting(v), FALSE, TRUE).issues[k].setting = KeyA

\* C12: a valid_values list written over several comment lines gives an
\* option whose allow-list holds the items, so a value matching none of them
\* is reported as error/invalid_value.
C12_ListOverLines ==
  (SchemaParsed /\ lines = ListOverLines) =>
    /\ Len(schema) = 1
    /\ schema[1].valid_literals = << <<"a">> >>
    /\ Len(schema[1].compiled_regex) = 1
    /\ RejectedValue(schema, <<"z">>)

\* the list on one line gives the allow-list and the rejection
C12_ListOnOneLine ==
  (SchemaParsed /\ lines = ListOnOneLine) =>
    /\ Len(schema) = 1
    /\ schema[1].valid_literals = << <<"a">> >>
    /\ Len(schema[1].compiled_regex) = 1
    /\ RejectedValue(schema, <<"z">>)

DefaultCase == SchemaParsed /\ lines \in DefaultTemplates

\* the value token of the default= line, without its trailing comma
DefaultToken ==
  LET t == Drop(lines[2], Len(DefaultIs))
  IN IF t # <<>> /\ t[Len(t)] = "," THEN SubSeq(t, 1, Len(t) - 1) ELSE t

\* the text between the quotes of a quoted token, else the token
Unquoted(t) ==
  IF Len(t) >= 2 /\ t[1] = t[Len(t)] /\ t[1] \in {"'", "\""}
  THEN SubSeq(t, 2, Len(t) - 1)
  ELSE t

\* C13 as stated: the default is absent only for the token None as written;
\* every other token gives a string default, '' the empty string.
C13_NoneAsWritten ==
  DefaultCase =>
    IF DefaultToken = <<"N", "o", "n", "e">>
    THEN schema[1].default = None
    ELSE schema[1].default = Some(Unquoted(DefaultToken))

\* C13: the default is absent exactly for the bare token None in any letter
\* case; every other token, the quoted 'None' included, gives a string
\* default, and '' gives the empty string, which is not absent.
C13_NoneAnyCase ==
  DefaultCase =>
    IF lower(DefaultToken) = <<"n", "o", "n", "e">>
    THEN schema[1].default = None
    ELSE schema[1].default = Some(Unquoted(DefaultToken))

\* default=none was read as no default
C13_Witness ==
  /\ DefaultCase
  /\ DefaultToken = <<"n", "o", "n", "e">>
  /\ schema[1].default = None

\* default='' was read as the empty string
C13_WitnessEmpty ==
  /\ DefaultCase
  /\ DefaultToken = <<"'", "'">>
  /\ schema[1].default = Some(<<>>)

\* the blocks whose resolved name is n, by their place among the blocks
BlocksNamed(n) == {k \in 1..Len(assembled) : Assembled(k).name = n}

LastBlockNamed(n) == CHOOSE k \in BlocksNamed(n) : \A o \in BlocksNamed(n) : o <= k

\* the warnings that name a setting: the duplicate warnings
DuplicateWarnings(n) ==
  {k \in 1..Len(schema_issues) :
     schema_issues[k].level = "warning" /\ schema_issues[k].setting = n}

AllDuplicateWarnings ==
  {k \in 1..Len(schema_issues) :
     schema_issues[k].level = "warning" /\ schema_issues[k].setting # NoSetting}

\* C14: the schema maps each resolved name to the option of the last block
\* that resolved to it, and there is one duplicate warning for every block
\* whose name was in the schema already: blocks minus schema entries.
C14_LastBlockWins ==
  SchemaParsed =>
    /\ SchemaKeys(schema) = {Assembled(k).name : k \in 1..Len(assembled)}
    /\ \A j, k \in 1..Len(schema) : schema[j].name = schema[k].name => j = k
    /\ \A j \in 1..Len(schema) :
         /\ schema[j] = Assembled(LastBlockNamed(schema[j].name))
         /\ Cardinality(DuplicateWarnings(schema[j].name))
              = Cardinality(BlocksNamed(schema[j].name)) - 1
    /\ Cardinality(AllDuplicateWarnings) = Len(assembled) - Len(schema)

\* block B took the name A by its name= line and replaced the int option of
\* block A
C14_Witness ==
  /\ SchemaParsed
  /\ lines = <<HeaderA, TypeInt, HeaderB, NameIsA>>
  /\ Len(assembled) = 2
  /\ Len(schema) = 1
  /\ Assembled(1).type_name = "int"
  /\ schema[1].type_name = "string"
  /\ Cardinality(AllDuplicateWarnings) = 1

\* the meta-lines of the enumeration that the parser refuses
MalformedTexts == {TypeInteger, ValuesBadRegex}

HeaderLines == {k \in 1..Len(lines) : SETTING_HEADER_RE(lines[k]).ok}

\* C18: a malformed meta-line of a block adds exactly one error-level
\* parse_error, leaves the values read so far as they were, and the parser
\* goes on with the next line; the option of the block is still inserted.
C18_MalformedMetaLine ==
  /\ [][(pc = "in_block" /\ i_line <= Len(lines) /\ lines[i_line] \in MalformedTexts)
          => /\ schema_issues' = Append(schema_issues, ParseError("error", setting_name))
             /\ meta' = meta
             /\ i_line' = i_line + 1
             /\ pc' = "in_block"]_vars
  /\ [](SchemaParsed =>
          /\ Len(assembled) = Cardinality(HeaderLines)
          /\ \A k \in 1..Len(assembled) : Assembled(k).name \in SchemaKeys(schema))

\* the type of block A stayed int after the refused type line, the refused
\* list left the allow-list of block B as it was, and both are in the schema
C18_Witness ==
  /\ SchemaParsed
  /\ \/ lines = <<HeaderA, TypeInt, TypeInteger, HeaderB>>
     \/ lines = <<HeaderA, TypeInt, TypeInteger>>
  /\ schema[1].type_name = "int"
  /\ Len(WithLevel(schema_issues, "error")) = 1
  /\ Len(schema) = Cardinality(HeaderLines)

C18_WitnessList ==
  /\ SchemaParsed
  /\ lines = <<HeaderB, ValuesA, ValuesBadRegex>>
  /\ schema[1].valid_literals = << <<"a">> >>
  /\ Len(WithLevel(schema_issues, "error")) = 1

\* the last line of the run of comment lines that are no headers after line h
RECURSIVE BlockEnd(_)
BlockEnd(h) ==
  IF h < Len(lines) /\ IsCommentLine(lines[h + 1]) /\ (h + 1) \notin HeaderLines
  THEN BlockEnd(h + 1)
  ELSE h

\* the meta-lines k..e applied in order
RECURSIVE MetaFold(_, _, _, _)
MetaFold(k, e, acc, name) ==
  IF k > e THEN acc
  ELSE MetaFold(k + 1, e, ApplyMeta(acc, Classify(lines[k]), name), name)

\* the option that the lines of the block of header line h give
BlockOption(h) ==
  OptionOf(MetaFold(h + 1, BlockEnd(h),
                    [meta |-> MetaStart, issues |-> <<>>, next |-> h],
                    SETTING_HEADER_RE(lines[h]).group).meta,
           SETTING_HEADER_RE(lines[h]).group)

\* the lines that belong to a block
BlockLinesOf == {k \in 1..Len(lines) : \E h \in HeaderLines : h < k /\ k <= BlockEnd(h)}

\* C19: every header line opens exactly one block, also one that ended the
\* block before it; a block is its header and the comment lines up to the
\* first non-comment line or the next header; the option is built from
\* those lines only, and meta-lines outside a block change nothing.
C19_BlockPerHeader ==
  SchemaParsed =>
    /\ {assembled[k].header : k \in 1..Len(assembled)} = HeaderLines
    /\ Len(assembled) = Cardinality(HeaderLines)
    /\ \A j, k \in 1..Len(assembled) : j < k => assembled[j].header < assembled[k].header
    /\ \A k \in 1..Len(assembled) : Assembled(k) = BlockOption(assembled[k].header)
    /\ Len(WithLevel(schema_issues, "error"))
         = Cardinality({k \in BlockLinesOf : lines[k] \in MalformedTexts})

\* a header ended block A and opened block B; the type line after the blank
\* line changed no block
C19_Witness ==
  /\ SchemaParsed
  /\ \/ lines = <<HeaderA, TypeInt, HeaderB, BlankLine>>
     \/ lines = <<HeaderA, BlankLine, TypeInt, HeaderB>>
  /\ Len(assembled) = 2
  /\ Assembled(2).type_name = "string"

(***************************************************************************)
(* Properties of main, under SpecMain.                                     *)
(***************************************************************************)
Exited == pc = "exit"

HasError(list) == \E k \in 1..Len(list) : list[k].level = "error"

\* reading the template or the configuration file gave an error-level issue
ParsingFailed == HasError(schema_issues) \/ HasError(env_issues)

ValidationCodes == {"missing", "type_mismatch", "invalid_value", "unknown"}

\* the template, or the configuration file main was given, is missing,
\* unreadable or yields an error-level parse issue
TemplateFailed == fs.example.state # "ok" \/ HasError(schema_issues)

ConfigFailed == argv.env_given /\ (fs.envfile.state # "ok" \/ HasError(env_issues))

\* C5: main returns 0 only when no error-level issue was found, 1 when both
\* files were read and validation produced an error, and 2 whenever the
\* template or the configuration file is missing, unreadable or yields an
\* error-level parse issue, in every command mode.
C5_ExitStatus ==
  Exited =>
    /\ status = EXIT_SUCCESS =>
         ~ParsingFailed /\ (report # NoReport => report.errors = 0)
    /\ (report # NoReport /\ report.errors > 0) => status = EXIT_VALIDATION
    /\ (TemplateFailed \/ ConfigFailed) => status = EXIT_PARSE

Tallied(r) ==
  /\ r.errors = CountLevel(r.issues, "error")
  /\ r.warnings = CountLevel(r.issues, "warning")

\* C7: the report of validate_env, the combined report of main, and the
\* counts main prints beside the issues it prints, all have errors and
\* warnings equal to the number of issues of that level in the list shown.
C7_CountsEqualTally ==
  /\ report # NoReport => Tallied(report)
  /\ full_report # NoReport => Tallied(full_report)
  /\ printed.counts.some =>
       Tallied([issues |-> printed.issues,
                errors |-> printed.counts.val.errors,
                warnings |-> printed.counts.val.warnings])

\* C8: in validation mode, once reading the template or the configuration
\* file has given an error-level parse error, validate_env is not called:
\* no report exists, the output holds no missing, type_mismatch,
\* invalid_value or unknown issue, and main returns 2.
C8_NoValidationAfterParseError ==
  (Validating /\ ParsingFailed) =>
    /\ report = NoReport
    /\ pc # "validated"
    /\ Exited =>
         /\ status = EXIT_PARSE
         /\ \A k \in 1..Len(printed.issues) :
              printed.issues[k].code \notin ValidationCodes

\* main returned 2 on a readable template with a parse error, with a
\* configuration that lacks a required setting of the schema it parsed
C8_Witness ==
  /\ Exited
  /\ Validating
  /\ argv.env_given
  /\ fs.example.state = "ok"
  /\ HasError(schema_issues)
  /\ DOMAIN env # {}
  /\ \E i \in 1..Len(schema) : schema[i].required /\ Absent(i)
  /\ status = EXIT_PARSE

\* main returned 2 because only the configuration file could not be read
C8_WitnessConfig ==
  /\ Exited
  /\ Validating
  /\ ~HasError(schema_issues)
  /\ HasError(env_issues)
  /\ \E i \in 1..Len(schema) : schema[i].required
  /\ status = EXIT_PARSE

\* the cases in which --scaffold --out does not write
ScaffoldRefused ==
  /\ Scaffolding
  /\ argv.out_given
  /\ \/ WithLevel(schema_issues, "error") # <<>>
     \/ out_file # "absent" /\ ~argv.force

\* C20: --scaffold --out touches the file only when the template has no
\* error-level parse issue and the file is absent or --force is given; when
\* the file exists without --force, or the template has a parse error, the
\* file is left as it was and main returns 2.
C20_ScaffoldWriteGuard ==
  /\ [][out_file' # out_file =>
          /\ Scaffolding
          /\ argv.out_given
          /\ WithLevel(schema_issues, "error") = <<>>
          /\ out_file = "absent" \/ argv.force]_vars
  /\ [][ScaffoldRefused => (out_file' = out_file /\ status' = EXIT_PARSE)]_vars
  /\ [](Exited /\ out_file = "scaffold" => status = EXIT_SUCCESS)

\* a clean template, --out on an existing file, no --force: the file is the
\* old one and main returned 2
C20_Witness ==
  /\ Exited
  /\ argv.scaffold /\ ~argv.emit_markdown /\ ~argv.emit_schema
  /\ argv.out_given /\ ~argv.force
  /\ WithLevel(schema_issues, "error") = <<>>
  /\ out_file = "old"
  /\ status = EXIT_PARSE

\* --force on an existing file: the file is rewritten
C20_WitnessForce ==
  /\ Exited
  /\ argv.scaffold /\ argv.out_given /\ argv.force
  /\ out_file = "scaffold"
  /\ status = EXIT_SUCCESS

(***************************************************************************)
(* Properties of load_dotenv and _parse_env_value, under SpecEnv.          *)
(***************************************************************************)
EnvLoaded == pc = "loaded_env"

\* the line-by-line run returns what the function gives on the whole file
LoadAgrees ==
  EnvLoaded => load_dotenv(File(lines)) = [env |-> env, issues |-> env_issues]

\* the lines that are KEY=VALUE lines, and those that are neither that nor
\* blank nor a comment
KeyLines == {k \in 1..Len(lines) : ~BlankOrComment(lines[k]) /\ MatchEnvLine(lines[k]).ok}

JunkLines == {k \in 1..Len(lines) : ~BlankOrComment(lines[k]) /\ ~MatchEnvLine(lines[k]).ok}

KeyOf(k) == MatchEnvLine(lines[k]).key

LastLineOf(key) ==
  CHOOSE k \in KeyLines : KeyOf(k) = key /\ \A o \in KeyLines : KeyOf(o) = key => o <= k

\* C15: load_dotenv reads every line: each KEY=VALUE line is stored whatever
\* lines are around it, each other non-blank non-comment line gives exactly
\* one warning-level parse_error and changes no entry, and a repeated key
\* holds the value of its last line, with no issue for the repetition.
C15_EveryLineRead ==
  /\ [][(pc = "loading" /\ i_line <= Len(lines)) => (i_line' = i_line + 1 /\ pc' = "loading")]_vars
  /\ [][(pc = "loading" /\ i_line \in JunkLines)
          => (env' = env /\ env_issues' = Append(env_issues, ParseError("warning", NoSetting)))]_vars
  /\ [](EnvLoaded =>
          /\ i_line = Len(lines) + 1
          /\ DOMAIN env = {KeyOf(k) : k \in KeyLines}
          /\ \A key \in DOMAIN env :
               env[key] = parse_env_value(strip(MatchEnvLine(lines[LastLineOf(key)]).rest))
          /\ Len(env_issues) = Cardinality(JunkLines)
          /\ \A k \in 1..Len(env_issues) : env_issues[k] = ParseError("warning", NoSetting))

\* A=1, then a line that is no KEY=VALUE line, then A=2: A holds 2 and there
\* is one warning
C15_Witness ==
  /\ EnvLoaded
  /\ lines = << <<"A", "=", "1">>, <<"j", "u", "n", "k">>, <<"A", "=", "2">> >>
  /\ env[KeyA] = <<"2">>
  /\ Len(env_issues) = 1

\* the value of the one-line file A=<value>, as the file gives it
ValueCase == EnvLoaded /\ <<lines>> \in {<<f>> : f \in ValueFiles}

RawValue == strip(Drop(lines[1], Len(AIs)))

BareValue == RawValue # <<>> /\ RawValue[1] \notin {"'", "\""}

HashAfterSpace(t) == \E k \in 2..Len(t) : t[k] = "#" /\ t[k - 1] \in {" ", "\t"}

\* C16: the value returned for an unquoted value never holds a '#' that is
\* preceded by a space or a tab: the value is cut at such a '#', also when
\* an earlier '#' has no whitespace before it.
C16_CutAtInlineComment ==
  (ValueCase /\ BareValue /\ KeyA \in DOMAIN env) => ~HashAfterSpace(env[KeyA])

IsQuote(c) == c \in {"'", "\""}

\* t with at most one quote character taken from each end
OneLayerOff(t) ==
  { SubSeq(t, 1 + a, Len(t) - b) :
      a \in {x \in {0, 1} : x = 0 \/ (t # <<>> /\ IsQuote(t[1]))},
      b \in {x \in {0, 1} : x = 0 \/ (t # <<>> /\ IsQuote(t[Len(t)]))} }

\* C17: on an unquoted value without a comment, the final pass takes at most
\* one quote character from each end of the trimmed value, and a value with
\* no quote character at its ends is returned as it is.
C17_OneQuoteLayer ==
  (ValueCase /\ BareValue /\ KeyA \in DOMAIN env
     /\ \A k \in 1..Len(RawValue) : RawValue[k] # "#") =>
    /\ env[KeyA] \in OneLayerOff(RawValue)
    /\ (~IsQuote(RawValue[Len(RawValue)])) => env[KeyA] = RawValue

====
